---- MODULE Spec2Model ----
(***************************************************************************)
(* A model of the GO-RAC vector database: the HNSW index                   *)
(* (src/db/persistence.go, second half: HNSWGraph), the database manager   *)
(* (src/db/manager.go), the snapshot codec (src/db/persistence.go, first   *)
(* half: PersistenceManager) and the restore / save passes of main         *)
(* (src/unnamed/part_000).                                                 *)
(*                                                                         *)
(* Representation.                                                         *)
(*  - A Go string id is a TLA+ string; "" is Go's empty string.            *)
(*  - A []float32 is a sequence of small naturals (all exactly             *)
(*    representable in float32).                                           *)
(*  - A Go map is a function whose DOMAIN is the key set; reading a        *)
(*    missing key of map[string][]string yields the nil slice <<>>.        *)
(*  - g.Layers is a sequence; Go's Layers[l] is Layers[l + 1] here.        *)
(*  - A distance is a natural number.  For the Euclidean metric the model  *)
(*    carries the SQUARE of the distance (math.Sqrt and the float32        *)
(*    conversion are strictly monotone on the small integers used), and    *)
(*    every comparison the code makes is translated accordingly (see       *)
(*    DistLess and ExceedsThreshold).                                      *)
(***************************************************************************)
EXTENDS Integers, Sequences, FiniteSets, TLC

VARIABLES
    g,          \* a stand-alone *HNSWGraph, driven directly (as hnsw_test.go does)
    databases,  \* Manager.databases: name -> Database
    disk,       \* the data root: directory name -> files written by the codec
    last,       \* the last call made and what it returned
    threads     \* each goroutine: the call it is in, its position, the locks it holds

vars == <<g, databases, disk, last, threads>>

(***************************************************************************)
(* Bounds of the model.                                                    *)
(***************************************************************************)
MaxVectors == 4     \* successful inserts into one index
MaxLevel == 1       \* highest level the random draw of Insert is allowed to give
MaxCoord == 2       \* coordinates are 0..MaxCoord
Dim == 1            \* length of the vectors given to the stand-alone index
MaxM == 2           \* M is drawn from 1..MaxM
MaxEf == 3          \* efConstruction / EfSearch are drawn from {1, MaxEf}
MaxK == 3           \* k of Search is drawn from 0..MaxK
MaxStored == 2      \* the vectors the manager's databases hold, all together
MaxThreads == 2     \* the goroutines that run concurrently
MaxMetricDim == 2   \* the length of the vectors given to Distance alone
MaxCalls == 2       \* the calls one goroutine makes one after the other
MaxTicks == 1         \* ticks of the persistence timer in one run

(***************************************************************************)
(* config.DistanceType (src/unnamed/part_010, iota constants).             *)
(***************************************************************************)
DistanceTypeEuclidean == 0
DistanceTypeCosine == 1
DistanceTypeManhattan == 2
DistanceTypeHamming == 3

(***************************************************************************)
(* Errors.                                                                 *)
(***************************************************************************)
NoErr == "nil"
ErrEmptyVector == "vector is empty"
ErrInvalidParameter == "invalid parameter"
ErrDuplicate == "vector with ID already exists"
ErrDatabaseExists == "database already exists"
ErrDatabaseNotFound == "database not found"
ErrVectorNotFound == "vector not found"
ErrInvalidDimensions == "invalid vector dimensions"
ErrIO == "io error"

(***************************************************************************)
(* Small helpers on naturals and sequences.                                *)
(***************************************************************************)
Min(a, b) == IF a < b THEN a ELSE b

Max(a, b) == IF a > b THEN a ELSE b

Abs(x) == IF x < 0 THEN -x ELSE x

Range(s) == {s[i] : i \in 1..Len(s)}

RECURSIVE SeqsOfLen(_, _)
SeqsOfLen(S, n) ==
    IF n = 0 THEN {<<>>}
    ELSE {Append(s, x) : s \in SeqsOfLen(S, n - 1), x \in S}

(***************************************************************************)
(* db.Vector.  Metadata is a Go map[string]interface{}: isNil tells the    *)
(* nil map from an empty one, kv is the key/value content.                 *)
(***************************************************************************)
NilMeta == [isNil |-> TRUE, kv |-> <<>>]

Vector(id, data, meta) == [ID |-> id, Data |-> data, Metadata |-> meta]

ZeroVector == Vector("", <<>>, NilMeta)

(***************************************************************************)
(* Distance kernels (HNSWGraph.Distance and its helpers).  `for i := range *)
(* a` walks the indices of a; callers give equal lengths.                  *)
(***************************************************************************)
\* sqrt(sum of squared differences), carried as its square
RECURSIVE euclideanSum(_, _, _)
euclideanSum(a, b, i) ==
    IF i > Len(a) THEN 0
    ELSE (a[i] - b[i]) * (a[i] - b[i]) + euclideanSum(a, b, i + 1)

euclideanDistance(a, b) == euclideanSum(a, b, 1)

RECURSIVE manhattanSum(_, _, _)
manhattanSum(a, b, i) ==
    IF i > Len(a) THEN 0 ELSE Abs(a[i] - b[i]) + manhattanSum(a, b, i + 1)

manhattanDistance(a, b) == manhattanSum(a, b, 1)

RECURSIVE hammingSum(_, _, _)
hammingSum(a, b, i) ==
    IF i > Len(a) THEN 0
    ELSE (IF a[i] # b[i] THEN 1 ELSE 0) + hammingSum(a, b, i + 1)

hammingDistance(a, b) == hammingSum(a, b, 1)

\* dot, normA and normB of cosineDistance (lines 635-640)
RECURSIVE dotSum(_, _, _)
dotSum(a, b, i) ==
    IF i > Len(a) THEN 0 ELSE a[i] * b[i] + dotSum(a, b, i + 1)

\* A cosine distance 1 - dot / (sqrt(normA) * sqrt(normB)) is carried as the
\* three sums, in exact arithmetic; the constant 1.0 is 1 - 0 / (1 * 1).
CosineValue(dot, normA, normB) == [dot |-> dot, normA |-> normA, normB |-> normB]

CosineOne == CosineValue(0, 1, 1)

\* a kernel without the test for a zero norm: the sums as they are
cosineNoZeroCheck(a, b) ==
    CosineValue(dotSum(a, b, 1), dotSum(a, a, 1), dotSum(b, b, 1))

\* lines 634-665: 1.0 when a norm is zero; similarity clamped to [-1, 1]
cosineDistance(a, b) ==
    LET dot == dotSum(a, b, 1)
        normA == dotSum(a, a, 1)
        normB == dotSum(b, b, 1)
    IN  IF normA = 0 \/ normB = 0 THEN CosineOne
        ELSE IF dot > 0 /\ dot * dot > normA * normB THEN CosineValue(1, 1, 1)
        ELSE IF dot < 0 /\ dot * dot > normA * normB THEN CosineValue(-1, 1, 1)
        ELSE CosineValue(dot, normA, normB)

\* The switch of Distance.  A cosine distance is a CosineValue, the others
\* are numbers; the searches of the model compare numbers only, so
\* DistanceTypeCosine is never drawn for an index that is searched (see
\* MetricsDrawn and CreateCalls).
Distance(gr, a, b) ==
    CASE gr.DistanceType = DistanceTypeEuclidean -> euclideanDistance(a, b)
      [] gr.DistanceType = DistanceTypeCosine -> cosineDistance(a, b)
      [] gr.DistanceType = DistanceTypeManhattan -> manhattanDistance(a, b)
      [] gr.DistanceType = DistanceTypeHamming -> hammingDistance(a, b)
      [] OTHER -> euclideanDistance(a, b)

\* Whether the metric's value is carried as its square.
Squared(gr) == gr.DistanceType \notin {DistanceTypeManhattan, DistanceTypeHamming}

\* d1 < d2 on float32 distances (the same on the squares).
DistLess(d1, d2) == d1 < d2

\* current.Distance > worst * qualityThreshold, qualityThreshold = 1.1:
\* d > 1.1 w  <=>  10 d > 11 w  <=>  100 d^2 > 121 w^2  (d, w >= 0).
ExceedsThreshold(gr, d, w) ==
    IF Squared(gr) THEN 100 * d > 121 * w ELSE 10 * d > 11 * w

(***************************************************************************)
(* container/heap over a slice of DistanceItem.  isMax selects MaxHeap's   *)
(* Less (>) or MinHeap's Less (<).  Indices i, j are Go's 0-based ones.    *)
(***************************************************************************)
DistanceItem(id, d) == [ID |-> id, Distance |-> d]

HeapSwap(h, i, j) == [h EXCEPT ![i + 1] = h[j + 1], ![j + 1] = h[i + 1]]

HeapLess(isMax, h, i, j) ==
    IF isMax THEN h[i + 1].Distance > h[j + 1].Distance
    ELSE h[i + 1].Distance < h[j + 1].Distance

RECURSIVE up(_, _, _)
up(isMax, h, j) ==
    LET i == (j - 1) \div 2 \* parent
    IN  IF j = 0 \/ ~HeapLess(isMax, h, j, i) THEN h
        ELSE up(isMax, HeapSwap(h, i, j), i)

RECURSIVE down(_, _, _, _)
down(isMax, h, i, n) ==
    LET j1 == 2 * i + 1 \* left child
    IN  IF j1 >= n THEN h
        ELSE LET j == IF j1 + 1 < n /\ HeapLess(isMax, h, j1 + 1, j1)
                      THEN j1 + 1 ELSE j1
             IN  IF ~HeapLess(isMax, h, j, i) THEN h
                 ELSE down(isMax, HeapSwap(h, i, j), j, n)

HeapPush(isMax, h, x) == up(isMax, Append(h, x), Len(h))

\* heap.Pop: swap root and last, sift the root down, remove the last.
HeapPop(isMax, h) ==
    LET n == Len(h) - 1
        h1 == down(isMax, HeapSwap(h, 0, n), 0, n)
    IN  [item |-> h1[n + 1], heap |-> SubSeq(h1, 1, n)]

\* Popping a heap until it is empty: the items in pop order.
RECURSIVE HeapDrain(_, _)
HeapDrain(isMax, h) ==
    IF Len(h) = 0 THEN <<>>
    ELSE LET p == HeapPop(isMax, h)
         IN  <<p.item>> \o HeapDrain(isMax, p.heap)

(***************************************************************************)
(* sort.Slice(items, less by Distance).  For slices of at most 12 elements *)
(* Go's sort is an insertion sort: element i is swapped towards the front  *)
(* while it is less than its predecessor.                                  *)
(***************************************************************************)
RECURSIVE SiftLeft(_, _)
SiftLeft(s, j) ==
    IF j > 1 /\ DistLess(s[j].Distance, s[j - 1].Distance)
    THEN SiftLeft([s EXCEPT ![j] = s[j - 1], ![j - 1] = s[j]], j - 1)
    ELSE s

RECURSIVE InsertionSortFrom(_, _)
InsertionSortFrom(s, i) ==
    IF i > Len(s) THEN s ELSE InsertionSortFrom(SiftLeft(s, i), i + 1)

\* a sort that leaves the slice as it is
SortNothing(s) == s

SortByDistance(s) == InsertionSortFrom(s, 2)

(***************************************************************************)
(* The index.  NewHNSWGraph replaces m <= 0 by 16 and efConstruction <= 0  *)
(* by 200, and sets EfSearch to efConstruction.  mL is positive for every  *)
(* M >= 1, so the level drawn by Insert is any natural number.             *)
(***************************************************************************)
DefaultM == 16
DefaultEfConstruction == 200

NewHNSWGraph(m, efConstruction, distanceType) ==
    LET m1 == IF m <= 0 THEN DefaultM ELSE m
        ef1 == IF efConstruction <= 0 THEN DefaultEfConstruction ELSE efConstruction
    IN  [M |-> m1,
         EfConstruction |-> ef1,
         EfSearch |-> ef1,
         MaxLayer |-> 0,
         EntryPoint |-> "",
         Layers |-> << <<>> >>,
         Vectors |-> <<>>,
         DistanceType |-> distanceType]

\* g.Layers[layer][id]; a missing key reads as the nil slice
Neighbors(gr, layer, id) ==
    IF id \in DOMAIN gr.Layers[layer + 1] THEN gr.Layers[layer + 1][id] ELSE <<>>

\* g.Vectors[id].Data
VecData(gr, id) == gr.Vectors[id].Data

\* m[key] = value on a Go map
MapPut(m, key, value) ==
    [x \in DOMAIN m \cup {key} |-> IF x = key THEN value ELSE m[x]]

\* delete(m, key) on a Go map
MapDelete(m, key) == [x \in DOMAIN m \ {key} |-> m[x]]

(***************************************************************************)
(* searchLayer.  st is the state of the loop: the visited set, resultSet   *)
(* (a MaxHeap) and candidateSet (a MinHeap); with them, `popped` lists the *)
(* ids popped from candidateSet so far and `peak` is the largest length    *)
(* resultSet has had after a neighbour was dealt with.                     *)
(***************************************************************************)
\* the effective width ef (lines 459-466)
EffectiveEf(gr, k, layer) ==
    IF layer = 0 /\ gr.EfSearch > k THEN gr.EfSearch
    ELSE IF layer > 0 /\ gr.EfConstruction > k THEN gr.EfConstruction
    ELSE k

\* a visit that never removes the worst element of resultSet
VisitNeighborNoPop(gr, query, ef, neighborID, st) ==
    IF neighborID \in st.visited THEN st
    ELSE LET neighborDist == Distance(gr, query, VecData(gr, neighborID))
             item == DistanceItem(neighborID, neighborDist)
             st1 == [st EXCEPT !.visited = @ \cup {neighborID}]
         IN  IF Len(st1.resultSet) < ef
                \/ DistLess(neighborDist, st1.resultSet[1].Distance)
             THEN LET pushed == HeapPush(TRUE, st1.resultSet, item)
                  IN  [st1 EXCEPT !.resultSet = pushed,
                                  !.peak = Max(@, Len(pushed)),
                                  !.candidateSet = HeapPush(FALSE, @, item)]
             ELSE st1

\* one neighbour of the popped candidate (lines 484-504)
VisitNeighbor(gr, query, ef, neighborID, st) ==
    IF neighborID \in st.visited THEN st
    ELSE LET neighborDist == Distance(gr, query, VecData(gr, neighborID))
             item == DistanceItem(neighborID, neighborDist)
             st1 == [st EXCEPT !.visited = @ \cup {neighborID}]
         IN  IF Len(st1.resultSet) < ef
                \/ DistLess(neighborDist, st1.resultSet[1].Distance)
             THEN LET pushed == HeapPush(TRUE, st1.resultSet, item)
                      kept == IF Len(pushed) > ef
                              THEN HeapPop(TRUE, pushed).heap ELSE pushed
                  IN  [st1 EXCEPT !.resultSet = kept,
                                  !.peak = Max(@, Len(kept)),
                                  !.candidateSet = HeapPush(FALSE, @, item)]
             ELSE st1

RECURSIVE ExploreNeighbors(_, _, _, _, _, _)
ExploreNeighbors(gr, query, ef, nbrs, i, st) ==
    IF i > Len(nbrs) THEN st
    ELSE ExploreNeighbors(gr, query, ef, nbrs, i + 1,
                          VisitNeighbor(gr, query, ef, nbrs[i], st))

\* the loop `for candidateSet.Len() > 0` (lines 472-506)
RECURSIVE SearchLoop(_, _, _, _, _)
SearchLoop(gr, query, ef, layer, st) ==
    IF Len(st.candidateSet) = 0 THEN st
    ELSE LET p == HeapPop(FALSE, st.candidateSet)
             current == p.item
             st1 == [st EXCEPT !.candidateSet = p.heap,
                               !.popped = Append(@, current.ID)]
         IN  IF Len(st1.resultSet) >= ef
                /\ ExceedsThreshold(gr, current.Distance, st1.resultSet[1].Distance)
             THEN st1
             ELSE SearchLoop(gr, query, ef, layer,
                    ExploreNeighbors(gr, query, ef,
                                     Neighbors(gr, layer, current.ID), 1, st1))

\* a search that does not mark its entry point as visited
SearchLayerRunEntryUnmarked(gr, query, entryPoint, k, layer) ==
    LET entryPointDist == Distance(gr, query, VecData(gr, entryPoint))
        first == DistanceItem(entryPoint, entryPointDist)
    IN  SearchLoop(gr, query, EffectiveEf(gr, k, layer), layer,
                   [visited |-> {},
                    resultSet |-> <<first>>,
                    candidateSet |-> <<first>>,
                    popped |-> <<>>, peak |-> 1])

\* the state searchLayer ends its loop in
SearchLayerRun(gr, query, entryPoint, k, layer) ==
    LET entryPointDist == Distance(gr, query, VecData(gr, entryPoint))
        first == DistanceItem(entryPoint, entryPointDist)
    IN  SearchLoop(gr, query, EffectiveEf(gr, k, layer), layer,
                   [visited |-> {entryPoint},
                    resultSet |-> <<first>>,
                    candidateSet |-> <<first>>,
                    popped |-> <<>>, peak |-> 1])

\* the ids of the first k items (lines 523-525)
TakeIDs(items, k) == [i \in 1..Min(k, Len(items)) |-> items[i].ID]

searchLayer(gr, query, entryPoint, k, layer) ==
    IF k <= 0 THEN <<>>
    ELSE LET st == SearchLayerRun(gr, query, entryPoint, k, layer)
             resultItems == SortByDistance(HeapDrain(TRUE, st.resultSet))
         IN  TakeIDs(resultItems, k)

(***************************************************************************)
(* selectNeighbors.                                                        *)
(***************************************************************************)
\* stands for math.MaxFloat32: larger than every distance of the model
MaxFloat32 == 1000000

\* minimum distance of a candidate to the ids already in result (lines 576-582)
RECURSIVE MinDistToResult(_, _, _, _, _)
MinDistToResult(gr, itemID, result, j, minDist) ==
    IF j > Len(result) THEN minDist
    ELSE LET dist == Distance(gr, VecData(gr, itemID), VecData(gr, result[j]))
         IN  MinDistToResult(gr, itemID, result, j + 1,
                             IF DistLess(dist, minDist) THEN dist ELSE minDist)

\* the scan of items for the largest minimum distance (lines 571-589);
\* returns maxIdx as an index of the sequence (Go's maxIdx + 1)
RECURSIVE FindMaxIdx(_, _, _, _, _, _)
FindMaxIdx(gr, items, result, i, maxDist, maxIdx) ==
    IF i > Len(items) THEN maxIdx
    ELSE LET minDist == MinDistToResult(gr, items[i].ID, result, 1, MaxFloat32)
         IN  IF minDist > maxDist
             THEN FindMaxIdx(gr, items, result, i + 1, minDist, i)
             ELSE FindMaxIdx(gr, items, result, i + 1, maxDist, maxIdx)

RemoveAt(s, i) == SubSeq(s, 1, i - 1) \o SubSeq(s, i + 1, Len(s))

\* the loop `for len(result) < m && len(items) > 0` (lines 569-596)
RECURSIVE SelectLoop(_, _, _, _)
SelectLoop(gr, items, result, m) ==
    IF ~(Len(result) < m /\ Len(items) > 0) THEN result
    ELSE LET maxIdx == FindMaxIdx(gr, items, result, 1, -1, 1)
         IN  SelectLoop(gr, RemoveAt(items, maxIdx),
                        Append(result, items[maxIdx].ID), m)

\* the loop that appends one item per candidate (lines 546-552)
RECURSIVE CandidateItems(_, _, _, _)
CandidateItems(gr, query, candidates, i) ==
    IF i > Len(candidates) THEN <<>>
    ELSE <<DistanceItem(candidates[i],
                        Distance(gr, query, VecData(gr, candidates[i])))>>
             \o CandidateItems(gr, query, candidates, i + 1)

\* a selection that keeps the m candidates nearest to the query
selectNearest(gr, query, candidates, m) ==
    IF Len(candidates) <= m THEN candidates
    ELSE TakeIDs(SortByDistance(CandidateItems(gr, query, candidates, 1)), m)

selectNeighbors(gr, query, candidates, m) ==
    IF Len(candidates) <= m THEN candidates
    ELSE LET items == SortByDistance(CandidateItems(gr, query, candidates, 1))
         IN  SelectLoop(gr, Tail(items), <<items[1].ID>>, m)

(***************************************************************************)
(* Insert.  `layer` is the level the random draw gives.  The result is the *)
(* index after the call and the error returned.                            *)
(***************************************************************************)
\* g.Layers[l][id] = list
SetNeighbors(gr, l, id, list) ==
    [gr EXCEPT !.Layers[l + 1] = MapPut(@, id, list)]

\* layers appended while MaxLayer stays as it was
ExtendLayersKeepMax(gr, layer) ==
    IF layer > gr.MaxLayer
    THEN [gr EXCEPT !.Layers = @ \o [i \in 1..(layer + 1 - Len(@)) |-> <<>>]]
    ELSE gr

\* lines 283-288: raise MaxLayer and append empty layers
ExtendLayers(gr, layer) ==
    IF layer > gr.MaxLayer
    THEN [gr EXCEPT !.MaxLayer = layer,
                    !.Layers = @ \o [i \in 1..(layer + 1 - Len(@)) |-> <<>>]]
    ELSE gr

\* linking that leaves alone a neighbour with no list in the layer
LinkNeighborIfKey(gr, l, neighbor, newID) ==
    IF neighbor \notin DOMAIN gr.Layers[l + 1] THEN gr
    ELSE LET appended == Append(Neighbors(gr, l, neighbor), newID)
         IN  IF Len(appended) > gr.M
             THEN SetNeighbors(gr, l, neighbor,
                      selectNeighbors(gr, VecData(gr, neighbor), appended, gr.M))
             ELSE SetNeighbors(gr, l, neighbor, appended)

\* linking that never trims the neighbour's list
LinkNeighborNoTrim(gr, l, neighbor, newID) ==
    SetNeighbors(gr, l, neighbor, Append(Neighbors(gr, l, neighbor), newID))

\* linking that appends the new id twice
LinkNeighborTwice(gr, l, neighbor, newID) ==
    SetNeighbors(gr, l, neighbor,
                 Append(Append(Neighbors(gr, l, neighbor), newID), newID))

\* lines 319-328: append the new id to one neighbour's list, trim it to M
LinkNeighbor(gr, l, neighbor, newID) ==
    LET appended == Append(Neighbors(gr, l, neighbor), newID)
    IN  IF Len(appended) > gr.M
        THEN SetNeighbors(gr, l, neighbor,
                 selectNeighbors(gr, VecData(gr, neighbor), appended, gr.M))
        ELSE SetNeighbors(gr, l, neighbor, appended)

\* no neighbour is linked back to the new vector
LinkNoNeighbors(gr, l, neighbors, i, newID) == gr

RECURSIVE LinkNeighbors(_, _, _, _, _)
LinkNeighbors(gr, l, neighbors, i, newID) ==
    IF i > Len(neighbors) THEN gr
    ELSE LinkNeighbors(LinkNeighbor(gr, l, neighbors[i], newID),
                       l, neighbors, i + 1, newID)

\* first phase (lines 300-306): descend from MaxLayer to layer + 1
RECURSIVE InsertDescent(_, _, _, _, _)
InsertDescent(gr, query, entryPointForLayer, l, layer) ==
    IF ~(l > layer) THEN entryPointForLayer
    ELSE LET pathCandidates == searchLayer(gr, query, entryPointForLayer, 1, l)
         IN  InsertDescent(gr, query,
                 IF Len(pathCandidates) > 0 THEN pathCandidates[1]
                 ELSE entryPointForLayer,
                 l - 1, layer)

\* second phase (lines 309-335): link the vector in layers l, l-1, ..., 0
RECURSIVE InsertLayers(_, _, _, _)
InsertLayers(gr, vector, entryPointForLayer, l) ==
    IF ~(l >= 0) THEN gr
    ELSE LET nearestCandidates ==
                 searchLayer(gr, vector.Data, entryPointForLayer, gr.EfConstruction, l)
             neighbors == selectNeighbors(gr, vector.Data, nearestCandidates, gr.M)
             linked == LinkNeighbors(SetNeighbors(gr, l, vector.ID, neighbors),
                                     l, neighbors, 1, vector.ID)
         IN  InsertLayers(linked, vector,
                 IF Len(nearestCandidates) > 0 THEN nearestCandidates[1]
                 ELSE entryPointForLayer,
                 l - 1)

\* the checks without the lookup of the id in g.Vectors
InsertErrNoLookup(gr, vector) ==
    IF Len(vector.Data) = 0 THEN ErrEmptyVector
    ELSE IF vector.ID = "" THEN ErrInvalidParameter
    ELSE NoErr

\* lines 258-271: the checks made before anything is changed
InsertErr(gr, vector) ==
    IF Len(vector.Data) = 0 THEN ErrEmptyVector
    ELSE IF vector.ID = "" THEN ErrInvalidParameter
    ELSE IF vector.ID \in DOMAIN gr.Vectors THEN ErrDuplicate
    ELSE NoErr

\* lines 283-291: the layers extended and the vector stored
InsertStored(gr, vector, layer) ==
    [ExtendLayers(gr, layer) EXCEPT !.Vectors = MapPut(@, vector.ID, vector)]

\* lines 299-335: the two phases, on an index that has an entry point
InsertLinked(gr, vector, layer) ==
    InsertLayers(gr, vector,
                 InsertDescent(gr, vector.Data, gr.EntryPoint, gr.MaxLayer, layer),
                 Min(layer, gr.MaxLayer))

\* lines 273-337: the index after a vector that passed the checks is inserted
InsertGraph(gr, vector, layer) ==
    LET g2 == InsertStored(gr, vector, layer)
    IN  IF g2.EntryPoint = ""
        THEN [g2 EXCEPT !.EntryPoint = vector.ID]
        ELSE InsertLinked(g2, vector, layer)

Insert(gr, vector, layer) ==
    IF InsertErr(gr, vector) # NoErr
    THEN [g |-> gr, err |-> InsertErr(gr, vector)]
    ELSE [g |-> InsertGraph(gr, vector, layer), err |-> NoErr]

(***************************************************************************)
(* Search.                                                                 *)
(***************************************************************************)
\* phase 1 (lines 367-377): descend from MaxLayer to layer 1
RECURSIVE SearchDescent(_, _, _, _)
SearchDescent(gr, query, currentEntryPoint, l) ==
    IF ~(l > 0) THEN currentEntryPoint
    ELSE LET pathCandidates == searchLayer(gr, query, currentEntryPoint, 1, l)
         IN  IF Len(pathCandidates) > 0
             THEN SearchDescent(gr, query, pathCandidates[1], l - 1)
             ELSE currentEntryPoint

\* no trimming of the layer-0 result
TrimNothing(finalCandidates, k) == finalCandidates

\* lines 383-385: finalCandidates[:k]
TrimToK(finalCandidates, k) ==
    IF Len(finalCandidates) > k THEN SubSeq(finalCandidates, 1, k)
    ELSE finalCandidates

\* a Search that does not look at k before it searches
SearchNoKCheck(gr, query, k) ==
    IF Len(query) = 0 THEN [ret |-> <<>>, err |-> ErrEmptyVector]
    ELSE IF gr.EntryPoint = "" THEN [ret |-> <<>>, err |-> NoErr]
    ELSE LET entry == SearchDescent(gr, query, gr.EntryPoint, gr.MaxLayer)
             finalCandidates ==
                 TrimToK(searchLayer(gr, query, entry, gr.EfSearch, 0), Max(k, 0))
         IN  [ret |-> [i \in 1..Len(finalCandidates) |->
                          gr.Vectors[finalCandidates[i]]],
              err |-> NoErr]

Search(gr, query, k) ==
    IF Len(query) = 0 THEN [ret |-> <<>>, err |-> ErrEmptyVector]
    ELSE IF k <= 0 THEN [ret |-> <<>>, err |-> ErrInvalidParameter]
    ELSE IF gr.EntryPoint = "" THEN [ret |-> <<>>, err |-> NoErr]
    ELSE LET entry == SearchDescent(gr, query, gr.EntryPoint, gr.MaxLayer)
             finalCandidates ==
                 TrimToK(searchLayer(gr, query, entry, gr.EfSearch, 0), k)
         IN  [ret |-> [i \in 1..Len(finalCandidates) |->
                          gr.Vectors[finalCandidates[i]]],
              err |-> NoErr]

(***************************************************************************)
(* The calls of the model record what they were given and what they        *)
(* returned in `last`.                                                     *)
(***************************************************************************)
ZeroConfig ==
    [HNSW |-> [Dimensions |-> 0, M |-> 0, EfConstruction |-> 0, EfSearch |-> 0,
               DistanceType |-> 0]]

\* what LoadDatabase returns: a Database whose Graph is nil
LoadedDatabase(name, cfg, vectors) ==
    [Name |-> name, Config |-> cfg, Vectors |-> vectors]

NoCall ==
    [op |-> "none",         \* the function called
     db |-> "",             \* its database name
     vec |-> ZeroVector,    \* the vector given
     id |-> "",             \* the vector id given
     query |-> <<>>, k |-> 0,
     layer |-> 0,           \* the level Insert drew
     err |-> NoErr,         \* the error returned
     ret |-> <<>>,          \* the []Vector returned
     out |-> ZeroVector,    \* the Vector returned
     names |-> <<>>,        \* the []string returned
     dist |-> 0,            \* the distance returned
     loaded |-> LoadedDatabase("", ZeroConfig, <<>>),
     cfg |-> ZeroConfig,    \* the DatabaseConfig given
     handle |-> <<>>]       \* the *Database returned: <<>> is nil, <<d>> points to d

(***************************************************************************)
(* Inputs.  Ids carry no order in the code (they are only compared for     *)
(* equality and used as map keys), so a fresh id is always the next unused *)
(* one of IdSeq.  Data given to one index has length Dim or is empty.      *)
(***************************************************************************)
IdSeq == <<"a", "b", "c", "d", "e", "f">>

Coords == 0..MaxCoord

DataOf(d) == SeqsOfLen(Coords, d)

Count(gr) == Cardinality(DOMAIN gr.Vectors)

FreshIds(gr) ==
    IF Count(gr) < Min(MaxVectors, Len(IdSeq)) THEN {IdSeq[Count(gr) + 1]} ELSE {}

MetricsDrawn == {DistanceTypeEuclidean, DistanceTypeHamming}

(***************************************************************************)
(* A run of the model is a sequence of calls that may change the state,    *)
(* followed by at most one call that changes nothing (a failed call or a   *)
(* read).  Such a call leaves every later call's state as it was, so each  *)
(* pair of a reachable state and a call's result is still reached; the     *)
(* guard only keeps the number of states down.                             *)
(***************************************************************************)
Running == last.op \in {"none", "Insert", "AddVector", "CreateDatabase",
                        "DeleteDatabase", "DeleteVector", "SaveDatabase",
                        "saveAllDatabases", "loadDatabases"}
           /\ last.err = NoErr

(***************************************************************************)
(* Locking.  Every exported method takes and releases sync.RWMutex locks;  *)
(* a method is modelled here by the lock calls of its path that runs to    *)
(* the end, in program order, deferred releases last and in reverse order, *)
(* and by its reads and writes of a database's identity map (db.Vectors)   *)
(* and index (db.Graph) in between.  A path that returns early makes a     *)
(* prefix of these calls followed by the matching releases, which is the   *)
(* lock program of another method below.                                   *)
(***************************************************************************)
Threads == 1..MaxThreads

\* acc is <<>>, or <<c>> while the read or write c is under way
IdleThread == [op |-> "idle", pc |-> 1, held |-> <<>>, acc |-> <<>>]

LockCall(call, mu) == [call |-> call, mu |-> mu]

\* Manager.CreateDatabase: m.mu.Lock(), defer m.mu.Unlock()
CreateDatabaseLocks == <<LockCall("Lock", "m.mu"), LockCall("Unlock", "m.mu")>>

\* Manager.GetDatabase: m.mu.RLock(), defer m.mu.RUnlock()
GetDatabaseLocks == <<LockCall("RLock", "m.mu"), LockCall("RUnlock", "m.mu")>>

\* Manager.DeleteDatabase: m.mu.Lock(), defer m.mu.Unlock()
DeleteDatabaseLocks == <<LockCall("Lock", "m.mu"), LockCall("Unlock", "m.mu")>>

\* Manager.ListDatabases: m.mu.RLock(), defer m.mu.RUnlock()
ListDatabasesLocks == <<LockCall("RLock", "m.mu"), LockCall("RUnlock", "m.mu")>>

\* HNSWGraph.Insert: g.mu.Lock(), defer g.mu.Unlock(); the index is written
InsertLocks ==
    <<LockCall("Lock", "g.mu"), LockCall("Write", "db.Graph"),
      LockCall("Unlock", "g.mu")>>

\* HNSWGraph.Search: g.mu.RLock(), defer g.mu.RUnlock(); the index is read
SearchLocks ==
    <<LockCall("RLock", "g.mu"), LockCall("Read", "db.Graph"),
      LockCall("RUnlock", "g.mu")>>

\* Manager.AddVector: GetDatabase, db.mu.Lock(), db.Vectors[vector.ID] =
\* vector, Graph.Insert, deferred Unlock
AddVectorLocks ==
    GetDatabaseLocks
        \o <<LockCall("Lock", "db.mu"), LockCall("Write", "db.Vectors")>>
        \o InsertLocks
        \o <<LockCall("Unlock", "db.mu")>>

\* Manager.GetVector: GetDatabase, db.mu.RLock(), db.Vectors[vectorID],
\* deferred RUnlock
GetVectorLocks ==
    GetDatabaseLocks
        \o <<LockCall("RLock", "db.mu"), LockCall("Read", "db.Vectors"),
              LockCall("RUnlock", "db.mu")>>

\* Manager.DeleteVector: GetDatabase, db.mu.Lock(), db.Vectors[vectorID],
\* delete(db.Vectors, vectorID), deferred Unlock
DeleteVectorLocks ==
    GetDatabaseLocks
        \o <<LockCall("Lock", "db.mu"), LockCall("Read", "db.Vectors"),
              LockCall("Write", "db.Vectors"), LockCall("Unlock", "db.mu")>>

\* a Manager.Search that takes db.mu for reading a second time while it
\* holds it
ManagerSearchRelocks ==
    GetDatabaseLocks \o <<LockCall("RLock", "db.mu"), LockCall("RLock", "db.mu")>>
        \o SearchLocks \o <<LockCall("RUnlock", "db.mu")>>

\* Manager.Search: GetDatabase, db.mu.RLock(), Graph.Search, deferred RUnlock
ManagerSearchLocks ==
    GetDatabaseLocks \o <<LockCall("RLock", "db.mu")>> \o SearchLocks
        \o <<LockCall("RUnlock", "db.mu")>>

\* a SaveDatabase that encodes db.Vectors without db.mu
SaveDatabaseNoRLock ==
    <<LockCall("Lock", "p.mu"), LockCall("Read", "db.Vectors"),
      LockCall("Unlock", "p.mu")>>

\* PersistenceManager.SaveDatabase: p.mu.Lock() on entry; db.mu.RLock() before
\* the vectors are encoded; the deferred calls release db.mu, then p.mu
SaveDatabaseLocks ==
    <<LockCall("Lock", "p.mu"), LockCall("RLock", "db.mu"),
      LockCall("Read", "db.Vectors"),
      LockCall("RUnlock", "db.mu"), LockCall("Unlock", "p.mu")>>

\* PersistenceManager.LoadDatabase: p.mu.RLock(), defer p.mu.RUnlock()
LoadDatabaseLocks == <<LockCall("RLock", "p.mu"), LockCall("RUnlock", "p.mu")>>

\* PersistenceManager.DeleteDatabase: p.mu.Lock(), defer p.mu.Unlock()
PmDeleteDatabaseLocks == <<LockCall("Lock", "p.mu"), LockCall("Unlock", "p.mu")>>

\* PersistenceManager.ListDatabases: p.mu.RLock(), defer p.mu.RUnlock()
PmListDatabasesLocks == <<LockCall("RLock", "p.mu"), LockCall("RUnlock", "p.mu")>>

\* saveAllDatabases, for one name listed: ListDatabases, GetDatabase,
\* SaveDatabase
saveAllDatabasesLocks == ListDatabasesLocks \o GetDatabaseLocks \o SaveDatabaseLocks

\* the calls the HTTP handlers and the persistence worker make
LockPrograms ==
    [CreateDatabase |-> CreateDatabaseLocks,
     GetDatabase |-> GetDatabaseLocks,
     DeleteDatabase |-> DeleteDatabaseLocks,
     ListDatabases |-> ListDatabasesLocks,
     AddVector |-> AddVectorLocks,
     GetVector |-> GetVectorLocks,
     DeleteVector |-> DeleteVectorLocks,
     Search |-> ManagerSearchLocks,
     SaveDatabase |-> SaveDatabaseLocks,
     LoadDatabase |-> LoadDatabaseLocks,
     PmDeleteDatabase |-> PmDeleteDatabaseLocks,
     PmListDatabases |-> PmListDatabasesLocks,
     saveAllDatabases |-> saveAllDatabasesLocks]

\* sync.RWMutex: who holds mu, and who holds it for writing
Holders(ths, mu) ==
    {t \in DOMAIN ths : \E i \in 1..Len(ths[t].held) : ths[t].held[i].mu = mu}

Writers(ths, mu) ==
    {t \in DOMAIN ths :
        \E i \in 1..Len(ths[t].held) :
            ths[t].held[i].mu = mu /\ ths[t].held[i].call = "Lock"}

\* Lock returns when nobody holds mu, RLock when nobody holds it for writing
CanAcquire(ths, c) ==
    IF c.call = "Lock" THEN Holders(ths, c.mu) = {}
    ELSE Writers(ths, c.mu) = {}

\* the locks held once mu was released
Released(held, mu) == SelectSeq(held, LAMBDA h : h.mu # mu)

\* a goroutine enters one of the calls
ThreadCall ==
    \E t \in Threads, op \in DOMAIN LockPrograms :
        /\ threads[t].op = "idle"
        /\ threads' = [threads EXCEPT ![t] = [IdleThread EXCEPT !.op = op]]
        /\ UNCHANGED <<g, databases, disk, last>>

\* the next lock call of a goroutine is Lock or RLock, and it returns
ThreadLock ==
    \E t \in Threads :
        /\ threads[t].op # "idle"
        /\ threads[t].pc <= Len(LockPrograms[threads[t].op])
        /\ \E c \in {LockPrograms[threads[t].op][threads[t].pc]} :
            /\ c.call \in {"Lock", "RLock"}
            /\ CanAcquire(threads, c)
            /\ threads' = [threads EXCEPT ![t].pc = @ + 1,
                                          ![t].held = Append(@, c)]
        /\ UNCHANGED <<g, databases, disk, last>>

\* the next lock call of a goroutine is Unlock or RUnlock
ThreadUnlock ==
    \E t \in Threads :
        /\ threads[t].op # "idle"
        /\ threads[t].pc <= Len(LockPrograms[threads[t].op])
        /\ \E c \in {LockPrograms[threads[t].op][threads[t].pc]} :
            /\ c.call \in {"Unlock", "RUnlock"}
            /\ threads' = [threads EXCEPT ![t].pc = @ + 1,
                                          ![t].held = Released(@, c.mu)]
        /\ UNCHANGED <<g, databases, disk, last>>

\* the next step of a goroutine is a read or a write, and it begins
ThreadAccessBegin ==
    \E t \in Threads :
        /\ threads[t].op # "idle"
        /\ threads[t].pc <= Len(LockPrograms[threads[t].op])
        /\ threads[t].acc = <<>>
        /\ \E c \in {LockPrograms[threads[t].op][threads[t].pc]} :
            /\ c.call \in {"Read", "Write"}
            /\ threads' = [threads EXCEPT ![t].acc = <<c>>]
        /\ UNCHANGED <<g, databases, disk, last>>

\* the read or write of a goroutine ends
ThreadAccessEnd ==
    \E t \in Threads :
        /\ threads[t].acc # <<>>
        /\ threads' = [threads EXCEPT ![t].pc = @ + 1, ![t].acc = <<>>]
        /\ UNCHANGED <<g, databases, disk, last>>

\* the call returns
ThreadReturn ==
    \E t \in Threads :
        /\ threads[t].op # "idle"
        /\ threads[t].pc > Len(LockPrograms[threads[t].op])
        /\ threads' = [threads EXCEPT ![t] = IdleThread]
        /\ UNCHANGED <<g, databases, disk, last>>

(***************************************************************************)
(* The stand-alone index: construction, Insert and Search called directly. *)
(***************************************************************************)
InitGraph ==
    /\ g \in {NewHNSWGraph(m, ef, dt) :
                m \in 1..MaxM, ef \in {1, MaxEf}, dt \in MetricsDrawn}
    /\ databases = <<>>
    /\ disk = <<>>
    /\ last = NoCall
    /\ threads = [t \in Threads |-> IdleThread]

GraphInsert ==
    /\ Running
    /\ \E id \in {""} \cup DOMAIN g.Vectors \cup FreshIds(g),
          data \in {<<>>} \cup DataOf(Dim) :
        LET vector == Vector(id, data, NilMeta)
        IN  \E layer \in IF InsertErr(g, vector) = NoErr THEN 0..MaxLevel ELSE {0} :
                \E r \in {Insert(g, vector, layer)} :
                    /\ g' = r.g
                    /\ last' = [NoCall EXCEPT !.op = "Insert", !.vec = vector, !.id = id,
                                              !.layer = layer, !.err = r.err]
                    /\ UNCHANGED <<threads, databases, disk>>

GraphSearch ==
    /\ Running
    /\ \E query \in {<<>>} \cup DataOf(Dim), k \in 0..MaxK :
        \E r \in {Search(g, query, k)} :
            /\ last' = [NoCall EXCEPT !.op = "Search", !.query = query, !.k = k,
                                      !.err = r.err, !.ret = r.ret]
            /\ UNCHANGED <<threads, g, databases, disk>>

NextGraph == GraphInsert \/ GraphSearch

SpecGraph == InitGraph /\ [][NextGraph]_vars

(***************************************************************************)
(* The manager (src/db/manager.go).  A Database is its name, its config,   *)
(* its identity map Vectors and its index Graph.  The operators take and   *)
(* return the map Manager.databases.                                       *)
(***************************************************************************)
HNSWConfig(d, m, efc, efs, dt) ==
    [HNSW |-> [Dimensions |-> d, M |-> m, EfConstruction |-> efc,
               EfSearch |-> efs, DistanceType |-> dt]]

\* a CreateDatabase that does not look the name up
CreateDatabaseOverwrite(dbs, name, dbConfig) ==
    [dbs |-> MapPut(dbs, name,
                    [Name |-> name,
                     Config |-> dbConfig,
                     Vectors |-> <<>>,
                     Graph |-> NewHNSWGraph(dbConfig.HNSW.M,
                                            dbConfig.HNSW.EfConstruction,
                                            dbConfig.HNSW.DistanceType)]),
     err |-> NoErr]

CreateDatabase(dbs, name, dbConfig) ==
    IF name \in DOMAIN dbs THEN [dbs |-> dbs, err |-> ErrDatabaseExists]
    ELSE [dbs |-> MapPut(dbs, name,
                    [Name |-> name,
                     Config |-> dbConfig,
                     Vectors |-> <<>>,
                     Graph |-> NewHNSWGraph(dbConfig.HNSW.M,
                                            dbConfig.HNSW.EfConstruction,
                                            dbConfig.HNSW.DistanceType)]),
          err |-> NoErr]

GetDatabase(dbs, name) ==
    IF name \in DOMAIN dbs THEN NoErr ELSE ErrDatabaseNotFound

\* the *Database GetDatabase returns beside its error
GetDatabaseHandle(dbs, name) ==
    IF name \in DOMAIN dbs THEN <<dbs[name]>> ELSE <<>>

DeleteDatabase(dbs, name) ==
    IF name \notin DOMAIN dbs THEN [dbs |-> dbs, err |-> ErrDatabaseNotFound]
    ELSE [dbs |-> MapDelete(dbs, name), err |-> NoErr]

\* the names in the slice ListDatabases returns, whatever their order
ListDatabases(dbs) == DOMAIN dbs

\* a range that appends every name twice
RECURSIVE RangeAppendTwice(_)
RangeAppendTwice(keys) ==
    IF keys = {} THEN {<<>>}
    ELSE UNION {{<<name, name>> \o rest : rest \in RangeAppendTwice(keys \ {name})} :
                  name \in keys}

\* lines 97-100: the slices `for name := range` can build, one per order in
\* which the range may visit the keys
RECURSIVE RangeAppend(_)
RangeAppend(keys) ==
    IF keys = {} THEN {<<>>}
    ELSE UNION {{<<name>> \o rest : rest \in RangeAppend(keys \ {name})} :
                  name \in keys}

\* the slices ListDatabases may return
ListDatabasesOrders(dbs) == RangeAppend(DOMAIN dbs)

\* AddVector without its dimension check
AddVectorNoCheck(dbs, dbName, vector, layer) ==
    IF GetDatabase(dbs, dbName) # NoErr
    THEN [dbs |-> dbs, err |-> GetDatabase(dbs, dbName)]
    ELSE [dbs |-> [dbs EXCEPT ![dbName].Vectors = MapPut(@, vector.ID, vector),
                              ![dbName].Graph = Insert(@, vector, layer).g],
          err |-> NoErr]

\* the index's error is dropped (line 121) and nil returned
AddVector(dbs, dbName, vector, layer) ==
    IF GetDatabase(dbs, dbName) # NoErr
    THEN [dbs |-> dbs, err |-> GetDatabase(dbs, dbName)]
    ELSE IF Len(vector.Data) # dbs[dbName].Config.HNSW.Dimensions
    THEN [dbs |-> dbs, err |-> ErrInvalidDimensions]
    ELSE [dbs |-> [dbs EXCEPT ![dbName].Vectors = MapPut(@, vector.ID, vector),
                              ![dbName].Graph = Insert(@, vector, layer).g],
          err |-> NoErr]

GetVector(dbs, dbName, vectorID) ==
    IF GetDatabase(dbs, dbName) # NoErr
    THEN [out |-> ZeroVector, err |-> GetDatabase(dbs, dbName)]
    ELSE IF vectorID \notin DOMAIN dbs[dbName].Vectors
    THEN [out |-> ZeroVector, err |-> ErrVectorNotFound]
    ELSE [out |-> dbs[dbName].Vectors[vectorID], err |-> NoErr]

\* a DeleteVector that also removes the vector from the index's store
DeleteVectorAlsoFromIndex(dbs, dbName, vectorID) ==
    IF GetDatabase(dbs, dbName) # NoErr
    THEN [dbs |-> dbs, err |-> GetDatabase(dbs, dbName)]
    ELSE IF vectorID \notin DOMAIN dbs[dbName].Vectors
    THEN [dbs |-> dbs, err |-> ErrVectorNotFound]
    ELSE [dbs |-> [dbs EXCEPT ![dbName].Vectors = MapDelete(@, vectorID),
                              ![dbName].Graph.Vectors = MapDelete(@, vectorID)],
          err |-> NoErr]

\* a DeleteVector that also resets the index's entry point
DeleteVectorClearsEntry(dbs, dbName, vectorID) ==
    IF GetDatabase(dbs, dbName) # NoErr
    THEN [dbs |-> dbs, err |-> GetDatabase(dbs, dbName)]
    ELSE IF vectorID \notin DOMAIN dbs[dbName].Vectors
    THEN [dbs |-> dbs, err |-> ErrVectorNotFound]
    ELSE [dbs |-> [dbs EXCEPT ![dbName].Vectors = MapDelete(@, vectorID),
                              ![dbName].Graph.EntryPoint = ""],
          err |-> NoErr]

DeleteVector(dbs, dbName, vectorID) ==
    IF GetDatabase(dbs, dbName) # NoErr
    THEN [dbs |-> dbs, err |-> GetDatabase(dbs, dbName)]
    ELSE IF vectorID \notin DOMAIN dbs[dbName].Vectors
    THEN [dbs |-> dbs, err |-> ErrVectorNotFound]
    ELSE [dbs |-> [dbs EXCEPT ![dbName].Vectors = MapDelete(@, vectorID)],
          err |-> NoErr]

\* Manager.Search.  Line 182 is written for an index Search of one result:
\* it returns what the index found, with a nil error
ManagerSearch(dbs, dbName, query, k) ==
    IF GetDatabase(dbs, dbName) # NoErr
    THEN [ret |-> <<>>, err |-> GetDatabase(dbs, dbName)]
    ELSE IF Len(query) # dbs[dbName].Config.HNSW.Dimensions
    THEN [ret |-> <<>>, err |-> ErrInvalidDimensions]
    ELSE [ret |-> Search(dbs[dbName].Graph, query, k).ret, err |-> NoErr]

(***************************************************************************)
(* The snapshot codec (PersistenceManager).  A file holds a JSON document: *)
(* an object is a record or function keyed by the json tags, a number      *)
(* carries no Go type, null is its own value.  encoding/json writes a      *)
(* metadata value of any Go numeric type as a number and reads every       *)
(* number back as float64.                                                 *)
(***************************************************************************)
\* a value of map[string]interface{}: goType is "int", "float64" or "string"
MetaValue(goType, n, str) == [goType |-> goType, n |-> n, str |-> str]

JsonScalar(kind, n, str) == [kind |-> kind, n |-> n, str |-> str]

EncodeMetaValue(v) ==
    IF v.goType = "string" THEN JsonScalar("string", 0, v.str)
    ELSE JsonScalar("number", v.n, "")

DecodeMetaValue(j) ==
    IF j.kind = "string" THEN MetaValue("string", 0, j.str)
    ELSE MetaValue("float64", j.n, "")

EncodeMetadata(m) ==
    [null |-> m.isNil, members |-> [key \in DOMAIN m.kv |-> EncodeMetaValue(m.kv[key])]]

DecodeMetadata(j) ==
    [isNil |-> j.null, kv |-> [key \in DOMAIN j.members |-> DecodeMetaValue(j.members[key])]]

\* Vector's json tags (src/db/types.go)
EncodeVector(v) ==
    [id |-> v.ID, data |-> v.Data, metadata |-> EncodeMetadata(v.Metadata)]

\* a decoder that loses the metadata
DecodeVectorNoMetadata(j) == Vector(j.id, j.data, NilMeta)

DecodeVector(j) == Vector(j.id, j.data, DecodeMetadata(j.metadata))

EncodeVectors(vectors) == [key \in DOMAIN vectors |-> EncodeVector(vectors[key])]

DecodeVectors(j) == [key \in DOMAIN j |-> DecodeVector(j[key])]

\* HNSWConfig's json tags (src/unnamed/part_010)
EncodeConfig(c) ==
    [hnsw |-> [dimensions |-> c.HNSW.Dimensions, m |-> c.HNSW.M,
               ef_construction |-> c.HNSW.EfConstruction,
               ef_search |-> c.HNSW.EfSearch,
               distance_type |-> c.HNSW.DistanceType]]

DecodeConfig(j) ==
    HNSWConfig(j.hnsw.dimensions, j.hnsw.m, j.hnsw.ef_construction,
               j.hnsw.ef_search, j.hnsw.distance_type)

\* the directory <basePath>/<db.Name> with config.json and vectors.json
SaveDatabase(dsk, db) ==
    MapPut(dsk, db.Name,
           [config |-> EncodeConfig(db.Config), vectors |-> EncodeVectors(db.Vectors)])

\* os.Open fails when the directory or a file is missing
LoadDatabase(dsk, name) ==
    IF name \notin DOMAIN dsk
    THEN [loaded |-> LoadedDatabase("", ZeroConfig, <<>>), err |-> ErrIO]
    ELSE [loaded |-> LoadedDatabase(name, DecodeConfig(dsk[name].config),
                                    DecodeVectors(dsk[name].vectors)),
          err |-> NoErr]

\* the directories of the data root
PersistenceListDatabases(dsk) == DOMAIN dsk

(***************************************************************************)
(* main's restore and save passes (src/unnamed/part_000).  Each pass walks *)
(* the names one by one; the names are distinct, so the order of the walk  *)
(* does not change the result.                                             *)
(***************************************************************************)
\* one iteration of loadDatabases' loop (lines 83-92)
LoadOne(dbs, dsk, name) ==
    IF LoadDatabase(dsk, name).err # NoErr THEN dbs
    ELSE CreateDatabase(dbs, name, LoadDatabase(dsk, name).loaded.Config).dbs

RECURSIVE LoadLoop(_, _, _)
LoadLoop(dbs, dsk, names) ==
    IF names = {} THEN dbs
    ELSE LET name == CHOOSE n \in names : TRUE
         IN  LoadLoop(LoadOne(dbs, dsk, name), dsk, names \ {name})

\* NewManager followed by loadDatabases
loadDatabases(dsk) == LoadLoop(<<>>, dsk, PersistenceListDatabases(dsk))

\* one iteration of saveAllDatabases' loop (lines 100-109)
SaveOne(dbs, dsk, name) ==
    IF GetDatabase(dbs, name) # NoErr THEN dsk ELSE SaveDatabase(dsk, dbs[name])

RECURSIVE SaveLoop(_, _, _)
SaveLoop(dbs, dsk, names) ==
    IF names = {} THEN dsk
    ELSE LET name == CHOOSE n \in names : TRUE
         IN  SaveLoop(dbs, SaveOne(dbs, dsk, name), names \ {name})

saveAllDatabases(dbs, dsk) == SaveLoop(dbs, dsk, ListDatabases(dbs))

(***************************************************************************)
(* The manager with its snapshots: the calls of the Manager, of the        *)
(* PersistenceManager, and main's save and restore passes.  The process    *)
(* starts with an empty data root.                                         *)
(***************************************************************************)
DbNames == {"db1", "db2"}

\* the databases the calls create: each name with its configuration
CreateCalls ==
    {<<"db1", HNSWConfig(Dim, 2, 3, 4, DistanceTypeEuclidean)>>,
     <<"db2", HNSWConfig(Dim, 1, 1, 2, DistanceTypeHamming)>>}

\* the point of the database's dimension with every coordinate c
Point(c) == [i \in 1..Dim |-> c]

TestVectors ==
    {Vector("x", Point(0), NilMeta),
     Vector("x", Point(2), [isNil |-> FALSE,
                         kv |-> [key \in {"index"} |-> MetaValue("int", 1, "")]]),
     Vector("y", Point(1), [isNil |-> FALSE,
                         kv |-> [key \in {"tag", "score"} |->
                                   IF key = "tag" THEN MetaValue("string", 0, "t")
                                   ELSE MetaValue("float64", 2, "")]]),
     Vector("z", <<>>, NilMeta),
     Vector("z", Append(Point(0), 1), NilMeta)}

TestQueries == {<<>>, Point(1), Append(Point(0), 1)}

TestKs == {0, 1, MaxK}

\* the vectors a process holds: those of the identity maps and of the indexes
Stored(dbs, name) == DOMAIN dbs[name].Vectors \cup DOMAIN dbs[name].Graph.Vectors

RECURSIVE TotalStored(_, _)
TotalStored(dbs, names) ==
    IF names = {} THEN 0
    ELSE LET name == CHOOSE n \in names : TRUE
         IN  Cardinality(Stored(dbs, name)) + TotalStored(dbs, names \ {name})

TestIds == {v.ID : v \in TestVectors}

InitManager ==
    /\ g = NewHNSWGraph(0, 0, DistanceTypeEuclidean)
    /\ databases = <<>>
    /\ disk = <<>>
    /\ last = NoCall
    /\ threads = [t \in Threads |-> IdleThread]

MgrCreateDatabase ==
    /\ Running
    /\ \E call \in CreateCalls :
        \E r \in {CreateDatabase(databases, call[1], call[2])} :
            /\ databases' = r.dbs
            /\ last' = [NoCall EXCEPT !.op = "CreateDatabase", !.db = call[1],
                                      !.cfg = call[2], !.err = r.err]
    /\ UNCHANGED <<threads, g, disk>>

MgrDeleteDatabase ==
    /\ Running
    /\ \E name \in DbNames :
        \E r \in {DeleteDatabase(databases, name)} :
            /\ databases' = r.dbs
            /\ last' = [NoCall EXCEPT !.op = "DeleteDatabase", !.db = name, !.err = r.err]
    /\ UNCHANGED <<threads, g, disk>>

MgrGetDatabase ==
    /\ Running
    /\ \E name \in DbNames :
        last' = [NoCall EXCEPT !.op = "GetDatabase", !.db = name,
                               !.err = GetDatabase(databases, name),
                               !.handle = GetDatabaseHandle(databases, name)]
    /\ UNCHANGED <<threads, g, databases, disk>>

MgrListDatabases ==
    /\ Running
    /\ \E names \in ListDatabasesOrders(databases) :
        last' = [NoCall EXCEPT !.op = "ListDatabases", !.names = names]
    /\ UNCHANGED <<threads, g, databases, disk>>

MgrAddVector ==
    /\ Running
    /\ \E dbName \in DbNames, vector \in TestVectors, layer \in 0..MaxLevel :
        \E r \in {AddVector(databases, dbName, vector, layer)} :
            /\ TotalStored(r.dbs, DOMAIN r.dbs) <= MaxStored
            /\ databases' = r.dbs
            /\ last' = [NoCall EXCEPT !.op = "AddVector", !.db = dbName, !.vec = vector,
                                      !.id = vector.ID, !.err = r.err]
    /\ UNCHANGED <<threads, g, disk>>

MgrGetVector ==
    /\ Running
    /\ \E dbName \in DbNames, vectorID \in TestIds :
        \E r \in {GetVector(databases, dbName, vectorID)} :
            last' = [NoCall EXCEPT !.op = "GetVector", !.db = dbName, !.id = vectorID,
                                   !.err = r.err, !.out = r.out]
    /\ UNCHANGED <<threads, g, databases, disk>>

MgrDeleteVector ==
    /\ Running
    /\ \E dbName \in DbNames, vectorID \in TestIds :
        \E r \in {DeleteVector(databases, dbName, vectorID)} :
            /\ databases' = r.dbs
            /\ last' = [NoCall EXCEPT !.op = "DeleteVector", !.db = dbName,
                                      !.id = vectorID, !.err = r.err]
    /\ UNCHANGED <<threads, g, disk>>

MgrSearch ==
    /\ Running
    /\ \E dbName \in DbNames, query \in TestQueries, k \in TestKs :
        \E r \in {ManagerSearch(databases, dbName, query, k)} :
            last' = [NoCall EXCEPT !.op = "Manager.Search", !.db = dbName,
                                   !.query = query, !.k = k, !.err = r.err, !.ret = r.ret]
    /\ UNCHANGED <<threads, g, databases, disk>>

\* SaveDatabase called on one of the manager's databases
PmSaveDatabase ==
    /\ Running
    /\ \E name \in DOMAIN databases :
        /\ disk' = SaveDatabase(disk, databases[name])
        /\ last' = [NoCall EXCEPT !.op = "SaveDatabase", !.db = name]
    /\ UNCHANGED <<threads, g, databases>>

PmLoadDatabase ==
    /\ Running
    /\ \E name \in DbNames :
        \E r \in {LoadDatabase(disk, name)} :
            last' = [NoCall EXCEPT !.op = "LoadDatabase", !.db = name,
                                   !.err = r.err, !.loaded = r.loaded]
    /\ UNCHANGED <<threads, g, databases, disk>>

\* a tick of persistenceWorker, or the save pass of shutdown
MainSaveAll ==
    /\ Running
    /\ disk' = saveAllDatabases(databases, disk)
    /\ last' = [NoCall EXCEPT !.op = "saveAllDatabases"]
    /\ UNCHANGED <<threads, g, databases>>

\* the process ends and a new one starts on the same data root
MainRestart ==
    /\ Running
    /\ databases' = loadDatabases(disk)
    /\ last' = [NoCall EXCEPT !.op = "loadDatabases"]
    /\ UNCHANGED <<threads, g, disk>>

\* the manager alone, its snapshots left out
NextManager ==
    \/ MgrCreateDatabase
    \/ MgrGetDatabase
    \/ MgrDeleteDatabase
    \/ MgrListDatabases
    \/ MgrAddVector
    \/ MgrGetVector
    \/ MgrDeleteVector
    \/ MgrSearch

SpecManager == InitManager /\ [][NextManager]_vars

\* the manager's databases filled, saved, loaded, and restored after a restart
NextSnapshot ==
    \/ MgrCreateDatabase
    \/ MgrDeleteDatabase
    \/ MgrListDatabases
    \/ MgrAddVector
    \/ MgrGetVector
    \/ MgrDeleteVector
    \/ PmSaveDatabase
    \/ PmLoadDatabase
    \/ MainSaveAll
    \/ MainRestart

SpecSnapshot == InitManager /\ [][NextSnapshot]_vars

(***************************************************************************)
(* Distance called alone, on vectors of equal length whose coordinates may *)
(* be negative; 4 is a DistanceType the switch has no case for.            *)
(***************************************************************************)
MetricTypes ==
    {DistanceTypeEuclidean, DistanceTypeCosine, DistanceTypeManhattan,
     DistanceTypeHamming, 4}

MetricCoords == (0 - MaxCoord)..MaxCoord

InitMetric ==
    /\ g \in {NewHNSWGraph(1, 1, dt) : dt \in MetricTypes}
    /\ databases = <<>>
    /\ disk = <<>>
    /\ last = NoCall
    /\ threads = [t \in Threads |-> IdleThread]

MetricDistance ==
    /\ last.op = "none"
    /\ \E n \in 1..MaxMetricDim :
        \E a \in SeqsOfLen(MetricCoords, n), b \in SeqsOfLen(MetricCoords, n) :
            \E d \in {Distance(g, a, b)} :
                last' = [NoCall EXCEPT !.op = "Distance", !.query = a,
                                      !.vec = Vector("", b, NilMeta),
                                      !.dist = d]
    /\ UNCHANGED <<threads, g, databases, disk>>

NextMetric == MetricDistance

SpecMetric == InitMetric /\ [][NextMetric]_vars

(***************************************************************************)
(* Concurrent calls on shared data.  A goroutine makes up to MaxCalls      *)
(* calls, one after the other; a call runs its method step by step: the    *)
(* lock calls, and between them the statements that read or write the      *)
(* shared maps, each a step of its own.  `call` is the call under way with *)
(* what it returns, `layer` the level Insert drew, `done` the calls that   *)
(* returned.  A return runs the deferred unlocks that are left.  For a     *)
(* SaveDatabase under way, `keys` is what the encoder has read of the      *)
(* map's keys, `written` the content it wrote to vectors.json, and `seen`  *)
(* the values the identity map has had since the call began.               *)
(***************************************************************************)
IdleGoroutine ==
    [op |-> "idle", pc |-> 1, held |-> <<>>, call |-> NoCall, layer |-> 0,
     done |-> <<>>, keys |-> {}, written |-> <<>>, seen |-> {}]

Statement(label) == LockCall("Step", label)

\* a CreateDatabase that does not take m.mu
CreateDatabaseStepsNoLock ==
    <<Statement("CreateDatabase.exists"), Statement("CreateDatabase.store")>>

\* Manager.CreateDatabase: m.mu.Lock(); the lookup of the name; the
\* construction and m.databases[name] = db; the deferred m.mu.Unlock()
CreateDatabaseSteps ==
    <<LockCall("Lock", "m.mu"),
      Statement("CreateDatabase.exists"), Statement("CreateDatabase.store"),
      LockCall("Unlock", "m.mu")>>

\* an Insert that does not take g.mu
InsertStepsNoLock ==
    <<Statement("Insert.validate"), Statement("Insert.exists"),
      Statement("Insert.store"), Statement("Insert.link")>>

\* HNSWGraph.Insert: the checks of the argument; g.mu.Lock(); the lookup of
\* the id; the level, the layers and g.Vectors[vector.ID] = vector (with the
\* entry point, for the first vector); the two phases that link the vector;
\* the deferred g.mu.Unlock()
InsertSteps ==
    <<Statement("Insert.validate"),
      LockCall("Lock", "g.mu"),
      Statement("Insert.exists"), Statement("Insert.store"),
      Statement("Insert.link"),
      LockCall("Unlock", "g.mu")>>

\* HNSWGraph.Search: the checks of the arguments; g.mu.RLock(); the search;
\* the deferred g.mu.RUnlock()
SearchSteps ==
    <<Statement("Search.validate"),
      LockCall("RLock", "g.mu"),
      Statement("Search.read"),
      LockCall("RUnlock", "g.mu")>>

\* a SaveDatabase that encodes db.Vectors without db.mu
SaveDatabaseStepsNoRLock ==
    <<LockCall("Lock", "p.mu"),
      Statement("SaveDatabase.config"), Statement("SaveDatabase.createVectors"),
      Statement("SaveDatabase.keys"), Statement("SaveDatabase.values"),
      LockCall("Unlock", "p.mu")>>

\* PersistenceManager.SaveDatabase: p.mu.Lock(); config.json created and
\* written; vectors.json created; db.mu.RLock(); Encode(db.Vectors), which
\* reads the map's keys and then their values; the deferred db.mu.RUnlock()
\* and p.mu.Unlock()
SaveDatabaseSteps ==
    <<LockCall("Lock", "p.mu"),
      Statement("SaveDatabase.config"), Statement("SaveDatabase.createVectors"),
      LockCall("RLock", "db.mu"),
      Statement("SaveDatabase.keys"), Statement("SaveDatabase.values"),
      LockCall("RUnlock", "db.mu"),
      LockCall("Unlock", "p.mu")>>

\* Manager.AddVector: GetDatabase under m.mu.RLock(); db.mu.Lock(); the check
\* of the length, the two stores; the deferred db.mu.Unlock()
AddVectorSteps ==
    <<LockCall("RLock", "m.mu"), LockCall("RUnlock", "m.mu"),
      LockCall("Lock", "db.mu"),
      Statement("AddVector.store"),
      LockCall("Unlock", "db.mu")>>

\* Manager.DeleteVector: GetDatabase under m.mu.RLock(); db.mu.Lock(); the
\* lookup and the delete; the deferred db.mu.Unlock()
DeleteVectorSteps ==
    <<LockCall("RLock", "m.mu"), LockCall("RUnlock", "m.mu"),
      LockCall("Lock", "db.mu"),
      Statement("DeleteVector.delete"),
      LockCall("Unlock", "db.mu")>>

StepPrograms ==
    [CreateDatabase |-> CreateDatabaseSteps,
     Insert |-> InsertSteps,
     Search |-> SearchSteps,
     SaveDatabase |-> SaveDatabaseSteps,
     AddVector |-> AddVectorSteps,
     DeleteVector |-> DeleteVectorSteps]

\* the step a goroutine is at; none once the method's last step is done
AtEnd(th) == th.pc > Len(StepPrograms[th.op])

Cur(th) == StepPrograms[th.op][th.pc]

AtStatement(th, label) ==
    th.op # "idle" /\ ~AtEnd(th) /\ Cur(th) = Statement(label)

\* where a return at step pc goes on: the first deferred unlock, or the end
RECURSIVE Deferred(_, _)
Deferred(prog, pc) ==
    IF pc > Len(prog) \/ prog[pc].call \in {"Unlock", "RUnlock"} THEN pc
    ELSE Deferred(prog, pc + 1)

\* the statement at pc returns err
ReturnErr(th, err) ==
    [th EXCEPT !.call.err = err,
               !.pc = Deferred(StepPrograms[th.op], th.pc + 1)]

\* &Database{...} of CreateDatabase (lines 49-54)
NewDatabase(name, dbConfig) ==
    [Name |-> name,
     Config |-> dbConfig,
     Vectors |-> <<>>,
     Graph |-> NewHNSWGraph(dbConfig.HNSW.M, dbConfig.HNSW.EfConstruction,
                            dbConfig.HNSW.DistanceType)]

\* Lock or RLock returns
GoLock ==
    \E t \in Threads :
        /\ threads[t].op # "idle" /\ ~AtEnd(threads[t])
        /\ Cur(threads[t]).call \in {"Lock", "RLock"}
        /\ CanAcquire(threads, Cur(threads[t]))
        /\ threads' = [threads EXCEPT ![t].pc = @ + 1,
                                      ![t].held = Append(@, Cur(threads[t]))]
        /\ UNCHANGED <<g, databases, disk, last>>

\* Unlock or RUnlock
GoUnlock ==
    \E t \in Threads :
        /\ threads[t].op # "idle" /\ ~AtEnd(threads[t])
        /\ Cur(threads[t]).call \in {"Unlock", "RUnlock"}
        /\ threads' = [threads EXCEPT ![t].pc = @ + 1,
                                      ![t].held = Released(@, Cur(threads[t]).mu)]
        /\ UNCHANGED <<g, databases, disk, last>>

\* the method returns to the goroutine
GoReturn ==
    \E t \in Threads :
        /\ threads[t].op # "idle" /\ AtEnd(threads[t])
        /\ threads' = [threads EXCEPT ![t] =
                          [IdleGoroutine EXCEPT
                              !.done = Append(threads[t].done, threads[t].call)]]
        /\ UNCHANGED <<g, databases, disk, last>>

\* a goroutine calls CreateDatabase
GoCreateDatabase ==
    \E t \in Threads, c \in CreateCalls :
        /\ threads[t].op = "idle" /\ Len(threads[t].done) < MaxCalls
        /\ threads' = [threads EXCEPT ![t].op = "CreateDatabase",
                          ![t].call = [NoCall EXCEPT !.op = "CreateDatabase",
                                                     !.db = c[1], !.cfg = c[2]]]
        /\ UNCHANGED <<g, databases, disk, last>>

\* `if _, exists := m.databases[name]; exists { return nil, ErrDatabaseExists }`
CreateExists ==
    \E t \in Threads :
        /\ AtStatement(threads[t], "CreateDatabase.exists")
        /\ threads' = [threads EXCEPT ![t] =
               IF threads[t].call.db \in DOMAIN databases
               THEN ReturnErr(threads[t], ErrDatabaseExists)
               ELSE [threads[t] EXCEPT !.pc = @ + 1]]
        /\ UNCHANGED <<g, databases, disk, last>>

\* `db := &Database{...}; m.databases[name] = db; return db, nil`
CreateStore ==
    \E t \in Threads :
        /\ AtStatement(threads[t], "CreateDatabase.store")
        /\ databases' = MapPut(databases, threads[t].call.db,
                               NewDatabase(threads[t].call.db, threads[t].call.cfg))
        /\ threads' = [threads EXCEPT ![t].pc = @ + 1]
        /\ UNCHANGED <<g, disk, last>>

\* the vectors and queries the goroutines give to one index
IndexVectors ==
    {Vector("a", Point(0), NilMeta), Vector("a", Point(2), NilMeta),
     Vector("b", Point(1), NilMeta), Vector("c", <<>>, NilMeta)}

IndexQueries == {<<>>, Point(1)}

\* a goroutine calls Insert
GoInsert ==
    \E t \in Threads, vector \in IndexVectors :
        /\ threads[t].op = "idle" /\ Len(threads[t].done) < MaxCalls
        /\ threads' = [threads EXCEPT ![t].op = "Insert",
                          ![t].call = [NoCall EXCEPT !.op = "Insert",
                                                     !.vec = vector]]
        /\ UNCHANGED <<g, databases, disk, last>>

\* lines 258-263: the checks made before the lock is taken
InsertValidate ==
    \E t \in Threads :
        /\ AtStatement(threads[t], "Insert.validate")
        /\ threads' = [threads EXCEPT ![t] =
               IF Len(threads[t].call.vec.Data) = 0
               THEN ReturnErr(threads[t], ErrEmptyVector)
               ELSE IF threads[t].call.vec.ID = ""
               THEN ReturnErr(threads[t], ErrInvalidParameter)
               ELSE [threads[t] EXCEPT !.pc = @ + 1]]
        /\ UNCHANGED <<g, databases, disk, last>>

\* lines 269-271: `if _, exists := g.Vectors[vector.ID]; exists { return ... }`
InsertExists ==
    \E t \in Threads :
        /\ AtStatement(threads[t], "Insert.exists")
        /\ threads' = [threads EXCEPT ![t] =
               IF threads[t].call.vec.ID \in DOMAIN g.Vectors
               THEN ReturnErr(threads[t], ErrDuplicate)
               ELSE [threads[t] EXCEPT !.pc = @ + 1]]
        /\ UNCHANGED <<g, databases, disk, last>>

\* lines 273-297: the level is drawn, the layers extended, the vector
\* stored; the first vector becomes the entry point and Insert returns nil
InsertStore ==
    \E t \in Threads, layer \in 0..MaxLevel :
        /\ AtStatement(threads[t], "Insert.store")
        /\ \E g2 \in {InsertStored(g, threads[t].call.vec, layer)} :
            IF g2.EntryPoint = ""
            THEN /\ g' = [g2 EXCEPT !.EntryPoint = threads[t].call.vec.ID]
                 /\ threads' = [threads EXCEPT ![t] = ReturnErr(threads[t], NoErr)]
            ELSE /\ g' = g2
                 /\ threads' = [threads EXCEPT ![t].pc = @ + 1,
                                               ![t].layer = layer]
        /\ UNCHANGED <<databases, disk, last>>

\* lines 299-337: the vector is linked in its layers and Insert returns nil
InsertLink ==
    \E t \in Threads :
        /\ AtStatement(threads[t], "Insert.link")
        /\ g' = InsertLinked(g, threads[t].call.vec, threads[t].layer)
        /\ threads' = [threads EXCEPT ![t].pc = @ + 1]
        /\ UNCHANGED <<databases, disk, last>>

\* a goroutine calls Search
GoSearch ==
    \E t \in Threads, query \in IndexQueries :
        /\ threads[t].op = "idle" /\ Len(threads[t].done) < MaxCalls
        /\ threads' = [threads EXCEPT ![t].op = "Search",
                          ![t].call = [NoCall EXCEPT !.op = "Search",
                                                     !.query = query,
                                                     !.k = MaxK]]
        /\ UNCHANGED <<g, databases, disk, last>>

\* lines 352-357: the checks made before the lock is taken
SearchValidate ==
    \E t \in Threads :
        /\ AtStatement(threads[t], "Search.validate")
        /\ threads' = [threads EXCEPT ![t] =
               IF Len(threads[t].call.query) = 0
               THEN ReturnErr(threads[t], ErrEmptyVector)
               ELSE IF threads[t].call.k <= 0
               THEN ReturnErr(threads[t], ErrInvalidParameter)
               ELSE [threads[t] EXCEPT !.pc = @ + 1]]
        /\ UNCHANGED <<g, databases, disk, last>>

\* lines 362-393: the search itself, on the index as it is
SearchRead ==
    \E t \in Threads :
        /\ AtStatement(threads[t], "Search.read")
        /\ \E r \in {Search(g, threads[t].call.query, threads[t].call.k)} :
            threads' = [threads EXCEPT ![t].pc = @ + 1,
                                       ![t].call.err = r.err,
                                       ![t].call.ret = r.ret]
        /\ UNCHANGED <<g, databases, disk, last>>

InitConcurrent ==
    /\ g = NewHNSWGraph(MaxM, MaxEf, DistanceTypeEuclidean)
    /\ databases = <<>>
    /\ disk = <<>>
    /\ last = NoCall
    /\ threads = [t \in Threads |-> IdleGoroutine]

\* goroutines that call CreateDatabase at the same time
NextCreates ==
    \/ GoCreateDatabase
    \/ GoLock
    \/ CreateExists
    \/ CreateStore
    \/ GoUnlock
    \/ GoReturn

SpecCreates == InitConcurrent /\ [][NextCreates]_vars

\* goroutines that call Insert and Search on one index at the same time
NextIndex ==
    \/ GoInsert
    \/ InsertValidate
    \/ InsertExists
    \/ InsertStore
    \/ InsertLink
    \/ GoSearch
    \/ SearchValidate
    \/ SearchRead
    \/ GoLock
    \/ GoUnlock
    \/ GoReturn

SpecIndex == InitConcurrent /\ [][NextIndex]_vars

(***************************************************************************)
(* selectNeighbors called on an index that holds vectors: the candidates   *)
(* are ids of the index, no id twice, as searchLayer and the neighbour     *)
(* lists give them.                                                        *)
(***************************************************************************)
SelectIds == {IdSeq[i] : i \in 1..Min(MaxVectors, Len(IdSeq))}

InitSelect ==
    /\ g \in {[NewHNSWGraph(1, 1, dt) EXCEPT !.Vectors = vs] :
                dt \in MetricsDrawn,
                vs \in {[id \in SelectIds |-> Vector(id, data[id], NilMeta)] :
                           data \in [SelectIds -> DataOf(Dim)]}}
    /\ databases = <<>>
    /\ disk = <<>>
    /\ last = NoCall
    /\ threads = [t \in Threads |-> IdleThread]

SelectNeighborsCall ==
    /\ last.op = "none"
    /\ \E query \in DataOf(Dim), ids \in SUBSET SelectIds, m \in 1..(MaxM + 1) :
        \E candidates \in RangeAppend(ids) :
            \E r \in {selectNeighbors(g, query, candidates, m)} :
                last' = [NoCall EXCEPT !.op = "selectNeighbors", !.query = query,
                                       !.names = candidates, !.k = m, !.ret = r]
    /\ UNCHANGED <<threads, g, databases, disk>>

NextSelect == SelectNeighborsCall

SpecSelect == InitSelect /\ [][NextSelect]_vars

(***************************************************************************)
(* The process (src/unnamed/part_000): main, which waits for the shutdown  *)
(* signal, closes stopPersistence, makes the last save pass and returns;   *)
(* persistenceWorker, which makes a save pass on every tick until it       *)
(* receives from stopPersistence; and the API server's handlers, which go  *)
(* on calling the manager.  A save pass is followed statement by           *)
(* statement, SaveDatabase file by file; an I/O call may fail.  When main  *)
(* returns the process ends, wherever the other goroutines are.            *)
(***************************************************************************)
Goroutines == {"main", "worker"}

\* what os.Open finds where no file is, and a file os.Create has just made
MissingFile == [file |-> "missing"]
EmptyFile == [file |-> "empty"]

\* no save pass under way
NoPass == [names |-> <<>>, i |-> 1, step |-> "none", db |-> <<>>,
           attempted |-> {}, failed |-> {}]

\* line 99: the pass starts on the slice ListDatabases returned
NewPass(names) == [NoPass EXCEPT !.names = names, !.step = "get"]

PassName(pass) == pass.names[pass.i]

\* a pass that returns at the first error
PassAbort(pass, ok) ==
    [pass EXCEPT !.i = IF ok THEN @ + 1 ELSE Len(pass.names) + 1,
                 !.step = "get", !.db = <<>>,
                 !.failed = IF ok THEN @ ELSE @ \cup {PassName(pass)}]

\* lines 100-110: the end of one iteration: after an error, the log line
\* and `continue`; the loop goes to the next name either way
PassContinue(pass, ok) ==
    [pass EXCEPT !.i = @ + 1, !.step = "get", !.db = <<>>,
                 !.failed = IF ok THEN @ ELSE @ \cup {PassName(pass)}]

\* p.mu is held from SaveDatabase's first statement to its return
HoldsCodec(th) ==
    th.pass.step \in {"encodeConfig", "createVectors", "encodeVectors"}

\* the pass holds the *Database of that name
Holds(pass, name) == pass.db # <<>> /\ pass.db[1].Name = name

\* the *Database the pass holds: the manager's, or the one DeleteDatabase
\* removed from the manager's map
Deref(dbs, pass) ==
    IF pass.db[1].Name \in DOMAIN dbs THEN dbs[pass.db[1].Name] ELSE pass.db[1]

\* the directory of a database, as MkdirAll leaves it
Directory(dsk, name) ==
    IF name \in DOMAIN dsk THEN dsk[name]
    ELSE [config |-> MissingFile, vectors |-> MissingFile]

\* one file of a database's directory written
WriteFile(dsk, name, file, content) ==
    MapPut(dsk, name, [Directory(dsk, name) EXCEPT ![file] = content])

\* the process runs until main returns
Alive == threads.main.pc # "exited"

\* stopPersistence is closed once main is past line 68
StopClosed == threads.main.pc \in {"final", "exited"}

\* the vector the handlers add
ProcessVectors == {Vector("x", Point(0), NilMeta)}

\* a data root that holds the snapshots of empty databases
DataRoot(names) ==
    [name \in names |->
       [config |-> EncodeConfig((CHOOSE c \in CreateCalls : c[1] = name)[2]),
        vectors |-> EncodeVectors(<<>>)]]

\* lines 37-47 of part_000: the manager restored from the data root, the
\* worker started, main waiting for the signal
InitProcess ==
    /\ g = NewHNSWGraph(0, 0, DistanceTypeEuclidean)
    /\ disk \in {DataRoot(names) : names \in SUBSET DbNames}
    /\ databases = loadDatabases(disk)
    /\ last = NoCall
    /\ threads = [main |-> [pc |-> "waiting", pass |-> NoPass],
                  worker |-> [pc |-> "select", pass |-> NoPass, ticks |-> 0],
                  server |-> [calls |-> 0, afterSignal |-> FALSE]]

\* a handler of the API server has changed the manager's state: the calls
\* are counted, and those made after the signal are remembered
ServerCalled(ths) ==
    [ths EXCEPT !.server.calls = @ + 1,
                !.server.afterSignal = @ \/ ths.main.pc # "waiting"]

\* a handler of the API server creates a database, none of that name being
\* held by a pass
ServerCreateDatabase ==
    /\ Alive /\ threads.server.calls < MaxCalls
    /\ \E c \in CreateCalls :
        /\ c[1] \notin DOMAIN databases
        /\ \A r \in Goroutines : ~Holds(threads[r].pass, c[1])
        /\ databases' = CreateDatabase(databases, c[1], c[2]).dbs
    /\ threads' = ServerCalled(threads)
    /\ UNCHANGED <<g, disk, last>>

\* a handler of the API server adds a vector (at layer 0: the index is no
\* part of a snapshot)
ServerAddVector ==
    /\ Alive /\ threads.server.calls < MaxCalls
    /\ \E dbName \in DOMAIN databases, vector \in ProcessVectors :
        \E r \in {AddVector(databases, dbName, vector, 0)} :
            /\ TotalStored(r.dbs, DOMAIN r.dbs) <= MaxStored
            /\ databases' = r.dbs
    /\ threads' = ServerCalled(threads)
    /\ UNCHANGED <<g, disk, last>>

\* a handler of the API server deletes a database; a pass that fetched it
\* keeps its *Database
ServerDeleteDatabase ==
    /\ Alive /\ threads.server.calls < MaxCalls
    /\ \E name \in DOMAIN databases :
        /\ databases' = DeleteDatabase(databases, name).dbs
        /\ threads' = [r \in DOMAIN threads |->
              IF r \in Goroutines /\ Holds(threads[r].pass, name)
              THEN [threads[r] EXCEPT !.pass.db = <<databases[name]>>]
              ELSE ServerCalled(threads)[r]]
    /\ UNCHANGED <<g, disk, last>>

\* line 64: `<-sigChan`
MainSignal ==
    /\ threads.main.pc = "waiting"
    /\ threads' = [threads EXCEPT !.main.pc = "closing"]
    /\ UNCHANGED <<g, databases, disk, last>>

\* line 68: close(stopPersistence)
MainClose ==
    /\ threads.main.pc = "closing"
    /\ threads' = [threads EXCEPT !.main.pc = "final"]
    /\ UNCHANGED <<g, databases, disk, last>>

\* line 71: main calls saveAllDatabases
MainFinalPass ==
    /\ threads.main.pc = "final" /\ threads.main.pass.step = "none"
    /\ \E names \in ListDatabasesOrders(databases) :
        threads' = [threads EXCEPT !.main.pass = NewPass(names)]
    /\ UNCHANGED <<g, databases, disk, last>>

\* lines 120-124 of part_000: the select takes the ticker's case, as it may whenever the
\* ticker has fired, stopPersistence closed or not
WorkerTick ==
    /\ Alive
    /\ threads.worker.pc = "select" /\ threads.worker.ticks < MaxTicks
    /\ \E names \in ListDatabasesOrders(databases) :
        threads' = [threads EXCEPT !.worker.pc = "pass",
                                   !.worker.ticks = @ + 1,
                                   !.worker.pass = NewPass(names)]
    /\ UNCHANGED <<g, databases, disk, last>>

\* lines 125-126: the select takes the case of stopPersistence and the
\* worker returns
WorkerStop ==
    /\ Alive
    /\ threads.worker.pc = "select" /\ StopClosed
    /\ threads' = [threads EXCEPT !.worker.pc = "returned"]
    /\ UNCHANGED <<g, databases, disk, last>>

\* lines 100-106 of part_000: GetDatabase for the next name; SaveDatabase
\* is called with the database it returns
PassGet ==
    /\ Alive
    /\ \E r \in Goroutines :
        /\ threads[r].pass.step = "get"
        /\ threads[r].pass.i <= Len(threads[r].pass.names)
        /\ \E name \in {PassName(threads[r].pass)} :
           threads' = [threads EXCEPT ![r].pass =
              IF GetDatabase(databases, name) # NoErr
              THEN PassContinue(@, FALSE)
              ELSE [@ EXCEPT !.step = "createConfig",
                             !.db = GetDatabaseHandle(databases, name),
                             !.attempted = @ \cup {name}]]
    /\ UNCHANGED <<g, databases, disk, last>>

\* persistence.go lines 32-46: p.mu.Lock(), MkdirAll, os.Create(config.json)
PassCreateConfig ==
    /\ Alive
    /\ \E r \in Goroutines :
        /\ threads[r].pass.step = "createConfig"
        /\ \A o \in Goroutines : ~HoldsCodec(threads[o])
        /\ disk' = WriteFile(disk, PassName(threads[r].pass), "config", EmptyFile)
        /\ threads' = [threads EXCEPT ![r].pass.step = "encodeConfig"]
    /\ UNCHANGED <<g, databases, last>>

\* persistence.go lines 49-51: Encode(db.Config)
PassEncodeConfig ==
    /\ Alive
    /\ \E r \in Goroutines :
        /\ threads[r].pass.step = "encodeConfig"
        /\ disk' = WriteFile(disk, PassName(threads[r].pass), "config",
                             EncodeConfig(Deref(databases, threads[r].pass).Config))
        /\ threads' = [threads EXCEPT ![r].pass.step = "createVectors"]
    /\ UNCHANGED <<g, databases, last>>

\* persistence.go lines 54-58: os.Create(vectors.json)
PassCreateVectors ==
    /\ Alive
    /\ \E r \in Goroutines :
        /\ threads[r].pass.step = "createVectors"
        /\ disk' = WriteFile(disk, PassName(threads[r].pass), "vectors", EmptyFile)
        /\ threads' = [threads EXCEPT ![r].pass.step = "encodeVectors"]
    /\ UNCHANGED <<g, databases, last>>

\* persistence.go lines 61-68 and part_000 lines 106-109: Encode(db.Vectors)
\* under db.mu.RLock, the deferred unlocks, and the next iteration
PassEncodeVectors ==
    /\ Alive
    /\ \E r \in Goroutines :
        /\ threads[r].pass.step = "encodeVectors"
        /\ disk' = WriteFile(disk, PassName(threads[r].pass), "vectors",
                             EncodeVectors(Deref(databases, threads[r].pass).Vectors))
        /\ threads' = [threads EXCEPT ![r].pass = PassContinue(@, TRUE)]
    /\ UNCHANGED <<g, databases, last>>

\* an I/O call of SaveDatabase returns an error (MkdirAll and os.Create of
\* config.json only once p.mu is held): SaveDatabase returns it, its
\* deferred calls unlock, and the loop logs the failure
PassIOError ==
    /\ Alive
    /\ \E r \in Goroutines :
        /\ \/ /\ threads[r].pass.step = "createConfig"
              /\ \A o \in Goroutines : ~HoldsCodec(threads[o])
           \/ HoldsCodec(threads[r])
        /\ threads' = [threads EXCEPT ![r].pass = PassContinue(@, FALSE)]
    /\ UNCHANGED <<g, databases, disk, last>>

\* line 112: saveAllDatabases returns nil; the worker goes back to its
\* select, main returns and the process ends
PassEnd ==
    /\ Alive
    /\ \E r \in Goroutines :
        /\ threads[r].pass.step = "get"
        /\ threads[r].pass.i > Len(threads[r].pass.names)
        /\ threads' = [threads EXCEPT ![r].pass.step = "done",
                          ![r].pc = IF r = "main" THEN "exited" ELSE "select"]
    /\ UNCHANGED <<g, databases, disk, last>>

NextProcess ==
    \/ ServerCreateDatabase
    \/ ServerAddVector
    \/ ServerDeleteDatabase
    \/ MainSignal
    \/ MainClose
    \/ MainFinalPass
    \/ WorkerTick
    \/ WorkerStop
    \/ PassGet
    \/ PassCreateConfig
    \/ PassEncodeConfig
    \/ PassCreateVectors
    \/ PassEncodeVectors
    \/ PassIOError
    \/ PassEnd

SpecProcess == InitProcess /\ [][NextProcess]_vars

(***************************************************************************)
(* SaveDatabase of one database while other goroutines call AddVector and  *)
(* DeleteVector on it.                                                     *)
(***************************************************************************)
SavedDb == "db1"

SaveVectors ==
    {Vector("x", Point(0), NilMeta), Vector("x", Point(2), NilMeta),
     Vector("y", Point(1), NilMeta)}

InitSave ==
    /\ g = NewHNSWGraph(0, 0, DistanceTypeEuclidean)
    /\ databases = CreateDatabase(<<>>, SavedDb,
                                  (CHOOSE c \in CreateCalls : c[1] = SavedDb)[2]).dbs
    /\ disk = <<>>
    /\ last = NoCall
    /\ threads = [t \in Threads |-> IdleGoroutine]

\* the goroutines inside SaveDatabase have seen one more value of the map
Seen(ths, vectors) ==
    [t \in DOMAIN ths |->
        IF ths[t].op = "SaveDatabase"
        THEN [ths[t] EXCEPT !.seen = @ \cup {vectors}]
        ELSE ths[t]]

\* a goroutine calls SaveDatabase
GoSaveDatabase ==
    \E t \in Threads :
        /\ threads[t].op = "idle" /\ Len(threads[t].done) < MaxCalls
        /\ threads' = [threads EXCEPT ![t].op = "SaveDatabase",
                          ![t].seen = {databases[SavedDb].Vectors},
                          ![t].call = [NoCall EXCEPT !.op = "SaveDatabase",
                                                     !.db = SavedDb]]
        /\ UNCHANGED <<g, databases, disk, last>>

\* persistence.go lines 35-51: MkdirAll, os.Create(config.json), Encode(db.Config)
SaveConfig ==
    \E t \in Threads :
        /\ AtStatement(threads[t], "SaveDatabase.config")
        /\ disk' = WriteFile(disk, SavedDb, "config",
                             EncodeConfig(databases[SavedDb].Config))
        /\ threads' = [threads EXCEPT ![t].pc = @ + 1]
        /\ UNCHANGED <<g, databases, last>>

\* persistence.go lines 54-59: os.Create(vectors.json)
SaveCreateVectors ==
    \E t \in Threads :
        /\ AtStatement(threads[t], "SaveDatabase.createVectors")
        /\ disk' = WriteFile(disk, SavedDb, "vectors", EmptyFile)
        /\ threads' = [threads EXCEPT ![t].pc = @ + 1]
        /\ UNCHANGED <<g, databases, last>>

\* persistence.go line 64: the encoder reads the keys of db.Vectors
SaveKeys ==
    \E t \in Threads :
        /\ AtStatement(threads[t], "SaveDatabase.keys")
        /\ threads' = [threads EXCEPT ![t].pc = @ + 1,
                                      ![t].keys = DOMAIN databases[SavedDb].Vectors]
        /\ UNCHANGED <<g, databases, disk, last>>

\* persistence.go line 64: the encoder reads the values of the keys that
\* are in db.Vectors and writes the JSON object
SaveValues ==
    \E t \in Threads :
        /\ AtStatement(threads[t], "SaveDatabase.values")
        /\ \E content \in {EncodeVectors(
                [key \in threads[t].keys \cap DOMAIN databases[SavedDb].Vectors |->
                    databases[SavedDb].Vectors[key]])} :
            /\ disk' = WriteFile(disk, SavedDb, "vectors", content)
            /\ threads' = [threads EXCEPT ![t].pc = @ + 1,
                                          ![t].written = <<content>>]
        /\ UNCHANGED <<g, databases, last>>

\* a goroutine calls AddVector
GoAddVector ==
    \E t \in Threads, vector \in SaveVectors :
        /\ threads[t].op = "idle" /\ Len(threads[t].done) < MaxCalls
        /\ threads' = [threads EXCEPT ![t].op = "AddVector",
                          ![t].call = [NoCall EXCEPT !.op = "AddVector",
                                                     !.db = SavedDb,
                                                     !.vec = vector]]
        /\ UNCHANGED <<g, databases, disk, last>>

\* manager.go lines 116-122: the check of the length and the two stores
AddVectorStore ==
    \E t \in Threads :
        /\ AtStatement(threads[t], "AddVector.store")
        /\ \E r \in {AddVector(databases, SavedDb, threads[t].call.vec, 0)} :
            /\ databases' = r.dbs
            /\ threads' = Seen([threads EXCEPT ![t].pc = @ + 1,
                                               ![t].call.err = r.err],
                               r.dbs[SavedDb].Vectors)
        /\ UNCHANGED <<g, disk, last>>

\* a goroutine calls DeleteVector
GoDeleteVector ==
    \E t \in Threads, vectorID \in {v.ID : v \in SaveVectors} :
        /\ threads[t].op = "idle" /\ Len(threads[t].done) < MaxCalls
        /\ threads' = [threads EXCEPT ![t].op = "DeleteVector",
                          ![t].call = [NoCall EXCEPT !.op = "DeleteVector",
                                                     !.db = SavedDb,
                                                     !.id = vectorID]]
        /\ UNCHANGED <<g, databases, disk, last>>

\* manager.go lines 157-162: the lookup of the id and the delete
DeleteVectorDelete ==
    \E t \in Threads :
        /\ AtStatement(threads[t], "DeleteVector.delete")
        /\ \E r \in {DeleteVector(databases, SavedDb, threads[t].call.id)} :
            /\ databases' = r.dbs
            /\ threads' = Seen([threads EXCEPT ![t].pc = @ + 1,
                                               ![t].call.err = r.err],
                               r.dbs[SavedDb].Vectors)
        /\ UNCHANGED <<g, disk, last>>

NextSave ==
    \/ GoSaveDatabase
    \/ SaveConfig
    \/ SaveCreateVectors
    \/ SaveKeys
    \/ SaveValues
    \/ GoAddVector
    \/ AddVectorStore
    \/ GoDeleteVector
    \/ DeleteVectorDelete
    \/ GoLock
    \/ GoUnlock
    \/ GoReturn

SpecSave == InitSave /\ [][NextSave]_vars

\* the goroutines of the process and the locks they take
NextLocks ==
    \/ ThreadCall
    \/ ThreadLock
    \/ ThreadUnlock
    \/ ThreadAccessBegin
    \/ ThreadAccessEnd
    \/ ThreadReturn

SpecLocks == InitManager /\ [][NextLocks]_vars

(***************************************************************************)
(* The calls of the handlers and of the snapshot passes, with the waiting  *)
(* of sync.RWMutex.  Lock queues behind the other writers of the mutex,    *)
(* then announces itself, which blocks every RLock called from then on,    *)
(* and returns when the readers that held the mutex have left; Unlock      *)
(* admits the readers blocked meanwhile before the next writer.  wait is   *)
(* "" or where the goroutine waits inside Lock or RLock.                   *)
(***************************************************************************)
MaxCallers == 3

Callers == 1..MaxCallers

IdleCaller == [op |-> "idle", pc |-> 1, held |-> <<>>, wait |-> ""]

\* the calls of the HTTP handlers
HandlerCalls ==
    {"CreateDatabase", "DeleteDatabase", "AddVector", "GetVector",
     "DeleteVector", "Search"}

\* the last goroutine is the persistence worker, which makes nothing but
\* snapshot passes; the others serve requests or, as main does on
\* shutdown, make a pass while the worker may be in the middle of one
CallsOf(t) ==
    IF t = MaxCallers THEN {"saveAllDatabases"}
    ELSE HandlerCalls \cup {"saveAllDatabases"}

\* the lock calls of a call, in the order the call makes them
LockCalls(op) ==
    SelectSeq(LockPrograms[op],
              LAMBDA c : c.call \in {"Lock", "RLock", "Unlock", "RUnlock"})

MidCall(th) == th.op # "idle" /\ th.pc <= Len(LockCalls(th.op))

\* the lock call a goroutine inside a call is at
NextCall(th) == LockCalls(th.op)[th.pc]

\* the writers that announced themselves on mu and wait for its readers
Announced(ths, mu) ==
    {t \in DOMAIN ths :
        MidCall(ths[t]) /\ ths[t].wait = "announced" /\ NextCall(ths[t]).mu = mu}

\* the readers blocked in RLock on mu
Blocked(ths, mu) ==
    {t \in DOMAIN ths :
        MidCall(ths[t]) /\ ths[t].wait = "blocked" /\ NextCall(ths[t]).mu = mu}

InitCalls ==
    /\ g = NewHNSWGraph(0, 0, DistanceTypeEuclidean)
    /\ databases = <<>>
    /\ disk = <<>>
    /\ last = NoCall
    /\ threads = [t \in Callers |-> IdleCaller]

\* a goroutine enters one of the calls
CallerEnters(t) ==
    \E op \in CallsOf(t) :
        /\ threads[t].op = "idle"
        /\ threads' = [threads EXCEPT ![t] = [IdleCaller EXCEPT !.op = op]]
        /\ UNCHANGED <<g, databases, disk, last>>

\* RLock: returns at once, or blocks behind a writer that holds the mutex
\* or has announced itself
CallerRLock(t) ==
    /\ MidCall(threads[t]) /\ threads[t].wait = ""
    /\ \E c \in {NextCall(threads[t])} :
        /\ c.call = "RLock"
        /\ threads' =
              IF Writers(threads, c.mu) = {} /\ Announced(threads, c.mu) = {}
              THEN [threads EXCEPT ![t].pc = @ + 1, ![t].held = Append(@, c)]
              ELSE [threads EXCEPT ![t].wait = "blocked"]
    /\ UNCHANGED <<g, databases, disk, last>>

\* Lock is called: the goroutine queues for the writers' mutex
CallerLock(t) ==
    /\ MidCall(threads[t]) /\ threads[t].wait = ""
    /\ NextCall(threads[t]).call = "Lock"
    /\ threads' = [threads EXCEPT ![t].wait = "queued"]
    /\ UNCHANGED <<g, databases, disk, last>>

\* the queued writer gets the writers' mutex and announces itself
WriterAnnounces(t) ==
    /\ MidCall(threads[t]) /\ threads[t].wait = "queued"
    /\ Writers(threads, NextCall(threads[t]).mu) = {}
    /\ Announced(threads, NextCall(threads[t]).mu) = {}
    /\ threads' = [threads EXCEPT ![t].wait = "announced"]
    /\ UNCHANGED <<g, databases, disk, last>>

\* the readers have left: Lock returns
WriterAcquires(t) ==
    /\ MidCall(threads[t]) /\ threads[t].wait = "announced"
    /\ \E c \in {NextCall(threads[t])} :
        /\ Holders(threads, c.mu) = {}
        /\ threads' = [threads EXCEPT ![t].pc = @ + 1, ![t].wait = "",
                                      ![t].held = Append(@, c)]
    /\ UNCHANGED <<g, databases, disk, last>>

CallerRUnlock(t) ==
    /\ MidCall(threads[t])
    /\ \E c \in {NextCall(threads[t])} :
        /\ c.call = "RUnlock"
        /\ threads' = [threads EXCEPT ![t].pc = @ + 1,
                                      ![t].held = Released(@, c.mu)]
    /\ UNCHANGED <<g, databases, disk, last>>

\* Unlock: the readers blocked on the mutex hold it from now on
CallerUnlock(t) ==
    /\ MidCall(threads[t])
    /\ \E c \in {NextCall(threads[t])} :
        /\ c.call = "Unlock"
        /\ threads' =
              [u \in Callers |->
                  IF u = t
                  THEN [threads[u] EXCEPT !.pc = @ + 1,
                                          !.held = Released(@, c.mu)]
                  ELSE IF u \in Blocked(threads, c.mu)
                  THEN [threads[u] EXCEPT !.pc = @ + 1, !.wait = "",
                                          !.held = Append(@, NextCall(threads[u]))]
                  ELSE threads[u]]
    /\ UNCHANGED <<g, databases, disk, last>>

CallerReturns(t) ==
    /\ threads[t].op # "idle" /\ ~MidCall(threads[t])
    /\ threads' = [threads EXCEPT ![t] = IdleCaller]
    /\ UNCHANGED <<g, databases, disk, last>>

\* what a goroutine inside a call does next
CallerRuns(t) ==
    \/ CallerRLock(t)
    \/ CallerLock(t)
    \/ WriterAnnounces(t)
    \/ WriterAcquires(t)
    \/ CallerRUnlock(t)
    \/ CallerUnlock(t)
    \/ CallerReturns(t)

NextCalls == \E t \in Callers : CallerEnters(t) \/ CallerRuns(t)

SpecCalls == InitCalls /\ [][NextCalls]_vars

\* the scheduler runs every goroutine that can run, and a sync.Mutex hands
\* itself to a goroutine that has waited for it (starvation mode), so a
\* queued writer is not passed over for ever
SpecCallsFair ==
    /\ SpecCalls
    /\ \A t \in Callers : WF_vars(CallerRuns(t)) /\ SF_vars(WriterAnnounces(t))

(***************************************************************************)
(* Claims about the stand-alone index (checked under SpecGraph).           *)
(***************************************************************************)
LayerIds(gr) == 0..(Len(gr.Layers) - 1)

\* every id the index knows of: stored, a key of a layer, or in a list
KnownIds(gr) ==
    DOMAIN gr.Vectors
    \cup UNION {DOMAIN gr.Layers[l + 1] : l \in LayerIds(gr)}
    \cup UNION {UNION {Range(gr.Layers[l + 1][u]) : u \in DOMAIN gr.Layers[l + 1]} :
                  l \in LayerIds(gr)}

Lists(gr, l, u, v) == v \in Range(Neighbors(gr, l, u))

ResultIds(c) == {c.ret[i].ID : i \in 1..Len(c.ret)}

\* C1: symmetric edges: in every layer, v is in u's neighbour list if and
\* only if u is in v's neighbour list.
C1_SymmetricEdges ==
    \A l \in LayerIds(g) : \A u \in KnownIds(g), v \in KnownIds(g) :
        Lists(g, l, u, v) <=> Lists(g, l, v, u)

\* C2: neighbour cap: after any Insert, no neighbour list of any layer is
\* longer than M.
C2_NeighborCap ==
    \A l \in LayerIds(g) : \A u \in DOMAIN g.Layers[l + 1] :
        Len(g.Layers[l + 1][u]) <= g.M

\* C2 witness: the last Insert chose u as a neighbour, u's list grew past M
\* and was trimmed back to M (the new id was dropped from it).
C2_Witness ==
    /\ last.op = "Insert" /\ last.err = NoErr
    /\ \E l \in LayerIds(g) : \E u \in DOMAIN g.Layers[l + 1] :
        /\ Lists(g, l, last.id, u)
        /\ ~Lists(g, l, u, last.id)
        /\ Len(g.Layers[l + 1][u]) = g.M

\* C3: result ordering: a successful Search returns vectors whose distances
\* to the query are non-decreasing.
C3_ResultOrdering ==
    (last.op = "Search" /\ last.err = NoErr) =>
        \A i \in 1..(Len(last.ret) - 1) :
            Distance(g, last.query, last.ret[i].Data)
                <= Distance(g, last.query, last.ret[i + 1].Data)

\* C3 witness: a Search returned three vectors at three different distances,
\* the nearest of them inserted last.
C3_Witness ==
    /\ last.op = "Search" /\ last.err = NoErr /\ Len(last.ret) >= 3
    /\ Distance(g, last.query, last.ret[1].Data)
         < Distance(g, last.query, last.ret[2].Data)
    /\ Distance(g, last.query, last.ret[2].Data)
         < Distance(g, last.query, last.ret[3].Data)
    /\ last.ret[1].ID = IdSeq[Count(g)]

\* C4: result cardinality: Search returns at most k vectors.
C4_ResultCardinality ==
    (last.op = "Search" /\ last.err = NoErr) => Len(last.ret) <= last.k

\* C4 witness: a Search with k below both EfSearch and the number of
\* indexed vectors returned exactly k vectors.
C4_Witness ==
    /\ last.op = "Search" /\ last.err = NoErr
    /\ last.k < g.EfSearch /\ last.k < Count(g)
    /\ Len(last.ret) = last.k

\* C6: Insert fails with EmptyVector on empty data, InvalidParameter on an
\* empty id, a duplicate error on a stored id, and then leaves the index as
\* it was; in every other case (data of the index's dimension) it succeeds,
\* the vector is stored and the count grows by one.
C6_InsertContract ==
    [][last'.op = "Insert" =>
        LET v == last'.vec
        IN  /\ last'.err =
                 (IF Len(v.Data) = 0 THEN ErrEmptyVector
                  ELSE IF v.ID = "" THEN ErrInvalidParameter
                  ELSE IF v.ID \in DOMAIN g.Vectors THEN ErrDuplicate
                  ELSE NoErr)
            /\ last'.err # NoErr =>
                 /\ g'.Vectors = g.Vectors /\ g'.Layers = g.Layers
                 /\ g'.MaxLayer = g.MaxLayer /\ g'.EntryPoint = g.EntryPoint
            /\ last'.err = NoErr =>
                 /\ Count(g') = Count(g) + 1
                 /\ v.ID \in DOMAIN g'.Vectors /\ g'.Vectors[v.ID] = v
    ]_vars

\* C6 witness: an Insert of a stored id, with data that differs from the
\* stored data, was rejected as a duplicate.
C6_Witness ==
    /\ last.op = "Insert" /\ last.err = ErrDuplicate
    /\ last.id \in DOMAIN g.Vectors
    /\ g.Vectors[last.id].Data # last.vec.Data

\* C8: a Search that begins after an Insert has completed observes the
\* inserted vector: with k and EfSearch at least the number of indexed
\* vectors, Search returns every vector inserted so far.
C8_InsertObserved ==
    (/\ last.op = "Search" /\ last.err = NoErr
     /\ last.k >= Count(g) /\ g.EfSearch >= Count(g)) =>
        \A id \in DOMAIN g.Vectors : id \in ResultIds(last)

(***************************************************************************)
(* Claims about the manager (checked under SpecManager).                   *)
(***************************************************************************)
Dimensions(dbs, name) == dbs[name].Config.HNSW.Dimensions

\* every vector a database holds, in its identity map or in its index, has
\* the length its database is configured with
StoredHaveDimension ==
    \A name \in DOMAIN databases :
        /\ \A id \in DOMAIN databases[name].Vectors :
             Len(databases[name].Vectors[id].Data) = Dimensions(databases, name)
        /\ \A id \in DOMAIN databases[name].Graph.Vectors :
             Len(databases[name].Graph.Vectors[id].Data) = Dimensions(databases, name)

\* C5: dimension invariance: AddVector with a vector, and Manager.Search with
\* a query, whose length differs from the D of the (existing) database
\* return InvalidDimensions and leave the identity map and the index as they
\* were; and every vector a database holds has length D.
C5_DimensionInvariance ==
    [][/\ (/\ last'.op = "AddVector" /\ last'.db \in DOMAIN databases
           /\ Len(last'.vec.Data) # Dimensions(databases, last'.db))
          => (last'.err = ErrInvalidDimensions /\ databases' = databases)
       /\ (/\ last'.op = "Manager.Search" /\ last'.db \in DOMAIN databases
           /\ Len(last'.query) # Dimensions(databases, last'.db))
          => (last'.err = ErrInvalidDimensions /\ databases' = databases)
       /\ StoredHaveDimension'
    ]_vars

\* C5 witness: AddVector of a vector that is too long, to a database that
\* holds a vector, returned InvalidDimensions.
C5_Witness ==
    /\ last.op = "AddVector" /\ last.err = ErrInvalidDimensions
    /\ last.db \in DOMAIN databases
    /\ Len(last.vec.Data) > Dimensions(databases, last.db)
    /\ DOMAIN databases[last.db].Vectors # {}
    /\ DOMAIN databases[last.db].Graph.Vectors # {}

\* C7: re-adding an id is rejected: AddVector of an id the database's
\* identity map holds returns a Duplicate error, and GetVector of that id
\* still returns the vector stored first.
C7_DuplicateRejected ==
    [][(/\ last'.op = "AddVector" /\ last'.db \in DOMAIN databases
        /\ Len(last'.vec.Data) = Dimensions(databases, last'.db)
        /\ last'.id \in DOMAIN databases[last'.db].Vectors)
       => /\ last'.err = ErrDuplicate
          /\ GetVector(databases', last'.db, last'.id)
               = GetVector(databases, last'.db, last'.id)
    ]_vars

(***************************************************************************)
(* Claims about the snapshots (checked under SpecSnapshot).                *)
(***************************************************************************)
\* LoadDatabase was called right after SaveDatabase of the same database
SavedThenLoaded ==
    /\ last.op = "SaveDatabase" /\ last.db \in DOMAIN databases
    /\ last'.op = "LoadDatabase" /\ last'.db = last.db

\* two metadata values that differ at most in the Go type of a number: the
\* second is the float64 of the first's number
SameUpToNumberType(v, w) ==
    IF v.goType = "string" THEN w = v
    ELSE w.goType = "float64" /\ w.n = v.n

SameMetadataUpToNumberType(m, w) ==
    /\ w.isNil = m.isNil
    /\ DOMAIN w.kv = DOMAIN m.kv
    /\ \A key \in DOMAIN m.kv : SameUpToNumberType(m.kv[key], w.kv[key])

\* C9, as stated: SaveDatabase(db) followed by LoadDatabase(db.Name) yields
\* the same name, the same DatabaseConfig and an identity map with the same
\* ids, each mapped to the same id, data and metadata.
C9_RoundTripExact ==
    [][SavedThenLoaded =>
        /\ last'.err = NoErr
        /\ last'.loaded.Name = databases[last.db].Name
        /\ last'.loaded.Config = databases[last.db].Config
        /\ DOMAIN last'.loaded.Vectors = DOMAIN databases[last.db].Vectors
        /\ \A id \in DOMAIN databases[last.db].Vectors :
             last'.loaded.Vectors[id] = databases[last.db].Vectors[id]
    ]_vars

\* C9, amended: SaveDatabase(db) followed by LoadDatabase(db.Name) yields the
\* same name, the same DatabaseConfig and an identity map with the same ids,
\* each mapped to the same id and data and to metadata with the same keys,
\* equal strings, and every number read back as the float64 of that number.
C9_RoundTrip ==
    [][SavedThenLoaded =>
        /\ last'.err = NoErr
        /\ last'.loaded.Name = databases[last.db].Name
        /\ last'.loaded.Config = databases[last.db].Config
        /\ DOMAIN last'.loaded.Vectors = DOMAIN databases[last.db].Vectors
        /\ \A id \in DOMAIN databases[last.db].Vectors :
             /\ last'.loaded.Vectors[id].ID = databases[last.db].Vectors[id].ID
             /\ last'.loaded.Vectors[id].Data = databases[last.db].Vectors[id].Data
             /\ SameMetadataUpToNumberType(databases[last.db].Vectors[id].Metadata,
                                           last'.loaded.Vectors[id].Metadata)
    ]_vars

\* C9 witness: LoadDatabase returned the two vectors of a database as they
\* are in memory and on disk, one with an int in its metadata when it was
\* saved, the other with a string and a float64.
C9_Witness ==
    /\ last.op = "LoadDatabase" /\ last.err = NoErr
    /\ last.db \in DOMAIN databases
    /\ disk[last.db].vectors = EncodeVectors(databases[last.db].Vectors)
    /\ DOMAIN last.loaded.Vectors = {"x", "y"}
    /\ "index" \in DOMAIN databases[last.db].Vectors["x"].Metadata.kv
    /\ databases[last.db].Vectors["x"].Metadata.kv["index"].goType = "int"
    /\ last.loaded.Vectors["y"].Metadata.kv["tag"].goType = "string"

\* C10: after a restart the manager lists exactly the snapshotted names, and
\* GetVector succeeds for every id of every snapshot.
C10_RestoreComplete ==
    last.op = "loadDatabases" =>
        /\ ListDatabases(databases) = PersistenceListDatabases(disk)
        /\ \A name \in DOMAIN disk : \A id \in DOMAIN disk[name].vectors :
             GetVector(databases, name, id).err = NoErr

(***************************************************************************)
(* Claims about the index and the identity map (C11 under SpecManager,     *)
(* C12 under SpecGraph).                                                   *)
(***************************************************************************)
\* the ids of a layer: its keys and the ids in its neighbour lists
LayerNodes(gr, l) ==
    DOMAIN gr.Layers[l + 1]
    \cup UNION {Range(gr.Layers[l + 1][u]) : u \in DOMAIN gr.Layers[l + 1]}

\* C11: every id that appears in any layer of a database's graph, as a key
\* or inside a neighbour list, exists in that database's identity map.
C11_LayerIdsInIdentityMap ==
    \A name \in DOMAIN databases :
        \A l \in LayerIds(databases[name].Graph) :
            LayerNodes(databases[name].Graph, l) \subseteq DOMAIN databases[name].Vectors

\* the highest layer that holds a node, 0 when no layer holds one
HighestLayerInUse(gr) ==
    LET used == {l \in LayerIds(gr) : LayerNodes(gr, l) # {}}
    IN  IF used = {} THEN 0 ELSE CHOOSE l \in used : \A o \in used : o <= l

\* C12: in every index state with at least one inserted vector, MaxLayer is
\* the highest layer index whose map contains at least one node.
C12_MaxLayerInUse ==
    Count(g) >= 1 => g.MaxLayer = HighestLayerInUse(g)

(***************************************************************************)
(* Claims about the manager's calls (checked under SpecManager).           *)
(***************************************************************************)
\* C13: in every database, EntryPoint is empty exactly while the index holds
\* no vector; the first successful Insert (made by AddVector) sets it to
\* that vector's id; and no later AddVector, Search or DeleteVector clears
\* it.
C13_EntryPointSetOnce ==
    [][/\ \A name \in DOMAIN databases' :
            (databases'[name].Graph.EntryPoint = "")
                <=> (DOMAIN databases'[name].Graph.Vectors = {})
       /\ \A name \in DOMAIN databases \cap DOMAIN databases' :
            LET before == databases[name].Graph.EntryPoint
                after == databases'[name].Graph.EntryPoint
            IN  /\ (before = "" /\ after # "") =>
                      (last'.op = "AddVector" /\ last'.db = name /\ after = last'.id)
                /\ before # "" => after # ""
    ]_vars

\* C13 witness: DeleteVector removed from the identity map the id that is
\* the index's entry point, and the entry point is still that id.
C13_Witness ==
    /\ last.op = "DeleteVector" /\ last.err = NoErr
    /\ databases[last.db].Graph.EntryPoint = last.id
    /\ last.id \notin DOMAIN databases[last.db].Vectors
    /\ DOMAIN databases[last.db].Vectors # {}

\* C14: CreateDatabase of a name in use fails with ErrDatabaseExists and
\* leaves the databases (the existing one with its vectors) as they were;
\* GetDatabase and DeleteDatabase of a name not present fail with
\* ErrDatabaseNotFound and change nothing; after a successful CreateDatabase
\* GetDatabase returns the database created, with the name and the config
\* given and nothing stored; after a successful DeleteDatabase GetDatabase
\* fails with ErrDatabaseNotFound.
C14_DatabaseErrors ==
    [][/\ (last'.op = "CreateDatabase" /\ last'.db \in DOMAIN databases) =>
             (last'.err = ErrDatabaseExists /\ databases' = databases)
       /\ (last'.op = "CreateDatabase" /\ last'.db \notin DOMAIN databases) =>
             /\ last'.err = NoErr
             /\ GetDatabase(databases', last'.db) = NoErr
             /\ GetDatabaseHandle(databases', last'.db)[1].Name = last'.db
             /\ GetDatabaseHandle(databases', last'.db)[1].Config = last'.cfg
             /\ DOMAIN GetDatabaseHandle(databases', last'.db)[1].Vectors = {}
             /\ \A other \in DOMAIN databases : databases'[other] = databases[other]
       /\ (last'.op \in {"GetDatabase", "DeleteDatabase"}
             /\ last'.db \notin DOMAIN databases) =>
             (last'.err = ErrDatabaseNotFound /\ databases' = databases)
       /\ (last'.op = "GetDatabase" /\ last'.db \in DOMAIN databases) =>
             /\ last'.err = NoErr
             /\ last'.handle = <<databases[last'.db]>>
             /\ databases' = databases
       /\ (last'.op = "DeleteDatabase" /\ last'.db \in DOMAIN databases) =>
             /\ last'.err = NoErr
             /\ GetDatabase(databases', last'.db) = ErrDatabaseNotFound
             /\ GetDatabaseHandle(databases', last'.db) = <<>>
    ]_vars

\* C14 witness: CreateDatabase of the name of a database that holds vectors
\* failed with ErrDatabaseExists.
C14_Witness ==
    /\ last.op = "CreateDatabase" /\ last.err = ErrDatabaseExists
    /\ last.db \in DOMAIN databases
    /\ DOMAIN databases[last.db].Vectors # {}

\* the names successfully created and not deleted since, as the calls made
\* so far give them: a successful CreateDatabase adds its name, a successful
\* DeleteDatabase removes it, no other call changes them
NamesAfter(names, call) ==
    IF call.op = "CreateDatabase" /\ call.err = NoErr THEN names \cup {call.db}
    ELSE IF call.op = "DeleteDatabase" /\ call.err = NoErr THEN names \ {call.db}
    ELSE names

\* C15: ListDatabases returns, without repetition, exactly the names that
\* were successfully created and not deleted since.  (No name is listed
\* before any call; each call changes the listed names as NamesAfter says;
\* and the slice a call returns holds those names once each.)
C15_ListDatabasesExact ==
    [][/\ ListDatabases(databases') = NamesAfter(ListDatabases(databases), last')
       /\ last'.op = "ListDatabases" =>
             /\ Range(last'.names) = ListDatabases(databases)
             /\ Len(last'.names) = Cardinality(Range(last'.names))
    ]_vars

\* C15 witness: with two databases, ListDatabases returned both names, db2
\* first.
C15_Witness ==
    /\ last.op = "ListDatabases" /\ last.names = <<"db2", "db1">>
    /\ DOMAIN databases = {"db1", "db2"}

(***************************************************************************)
(* Further claims about the stand-alone index (checked under SpecGraph).   *)
(***************************************************************************)
\* C16: Search fails with ErrEmptyVector when the query is empty and with
\* ErrInvalidParameter when k <= 0 (the query not being empty); on an index
\* with no vector it returns an empty list and no error for a non-empty
\* query and k >= 1; and Search never modifies the index.
C16_SearchErrors ==
    [][last'.op = "Search" =>
        /\ last'.err = (IF Len(last'.query) = 0 THEN ErrEmptyVector
                        ELSE IF last'.k <= 0 THEN ErrInvalidParameter
                        ELSE NoErr)
        /\ last'.err # NoErr => last'.ret = <<>>
        /\ (last'.err = NoErr /\ Count(g) = 0) => last'.ret = <<>>
        /\ g' = g
    ]_vars

\* C16 witness: on an index that holds vectors, a Search with k = 0 and a
\* query that is not empty failed with ErrInvalidParameter.
C16_Witness ==
    /\ last.op = "Search" /\ last.err = ErrInvalidParameter
    /\ last.k = 0 /\ Len(last.query) > 0
    /\ Count(g) >= 2

(***************************************************************************)
(* Further claims about the manager (checked under SpecManager).           *)
(***************************************************************************)
\* C17: DeleteVector of an id the identity map holds removes it from the
\* identity map only: GetVector of the id then returns ErrVectorNotFound,
\* the other entries of the identity map and the graph (Layers, MaxLayer,
\* EntryPoint, its vector store) are unchanged; DeleteVector of an id the
\* identity map does not hold returns ErrVectorNotFound and changes nothing.
C17_DeleteVectorFrame ==
    [][(last'.op = "DeleteVector" /\ last'.db \in DOMAIN databases) =>
        LET db == databases[last'.db]
            after == databases'[last'.db]
        IN  IF last'.id \in DOMAIN db.Vectors
            THEN /\ last'.err = NoErr
                 /\ GetVector(databases', last'.db, last'.id).err = ErrVectorNotFound
                 /\ DOMAIN after.Vectors = DOMAIN db.Vectors \ {last'.id}
                 /\ \A id \in DOMAIN after.Vectors : after.Vectors[id] = db.Vectors[id]
                 /\ after.Graph = db.Graph
                 /\ \A other \in DOMAIN databases \ {last'.db} :
                        databases'[other] = databases[other]
            ELSE /\ last'.err = ErrVectorNotFound
                 /\ databases' = databases
    ]_vars

\* C17 witness: DeleteVector removed an id from the identity map, and the
\* graph still stores the id's vector and lists the id in layer 0.
C17_Witness ==
    /\ last.op = "DeleteVector" /\ last.err = NoErr
    /\ last.id \notin DOMAIN databases[last.db].Vectors
    /\ last.id \in DOMAIN databases[last.db].Graph.Vectors
    /\ last.id \in LayerNodes(databases[last.db].Graph, 0)

(***************************************************************************)
(* Claims about what Search finds (checked under SpecGraph).               *)
(***************************************************************************)
\* C18: when at least k vectors are in the index and k <= EfSearch, a
\* Search with that k (k >= 1) returns exactly k vectors.
C18_ExactlyK ==
    (/\ last.op = "Search" /\ last.err = NoErr
     /\ last.k >= 1 /\ last.k <= Count(g) /\ last.k <= g.EfSearch) =>
        Len(last.ret) = last.k

\* no neighbour list was ever trimmed and no search was cut short: the
\* index holds n vectors with n - 1 <= M and EfConstruction, EfSearch >= n
SmallSet(gr) ==
    /\ Count(gr) >= 1
    /\ Count(gr) - 1 <= gr.M
    /\ gr.EfConstruction >= Count(gr)
    /\ gr.EfSearch >= Count(gr)

\* C19: exact ordering on small sets: when n vectors are in the index with
\* n - 1 <= M and EfConstruction, EfSearch >= n, a Search returns min(k, n)
\* different vectors, in ascending distance to the query, and no vector left
\* out is nearer to the query than one returned, whatever levels were drawn.
C19_ExactOnSmallSets ==
    (last.op = "Search" /\ last.err = NoErr /\ SmallSet(g)) =>
        /\ Len(last.ret) = Min(last.k, Count(g))
        /\ Cardinality(ResultIds(last)) = Len(last.ret)
        /\ \A i \in 1..Len(last.ret) :
             /\ last.ret[i].ID \in DOMAIN g.Vectors
             /\ last.ret[i] = g.Vectors[last.ret[i].ID]
        /\ \A i \in 1..(Len(last.ret) - 1) :
             Distance(g, last.query, last.ret[i].Data)
                 <= Distance(g, last.query, last.ret[i + 1].Data)
        /\ \A id \in DOMAIN g.Vectors \ ResultIds(last) :
             \A i \in 1..Len(last.ret) :
                 Distance(g, last.query, last.ret[i].Data)
                     <= Distance(g, last.query, g.Vectors[id].Data)

\* C19 witness: three vectors at three distances, the first of them on an
\* upper layer; a Search with k = 2 returned the two nearest, the nearest of
\* all being the vector inserted last.
C19_Witness ==
    /\ last.op = "Search" /\ last.err = NoErr /\ SmallSet(g)
    /\ Count(g) = 3 /\ last.k = 2 /\ Len(last.ret) = 2
    /\ g.MaxLayer >= 1
    /\ last.ret[1].ID = "c"
    /\ Distance(g, last.query, last.ret[1].Data)
         < Distance(g, last.query, last.ret[2].Data)
    /\ \A id \in DOMAIN g.Vectors \ ResultIds(last) :
         Distance(g, last.query, last.ret[2].Data)
             < Distance(g, last.query, g.Vectors[id].Data)

(***************************************************************************)
(* Claims about locking (checked under SpecLocks).                         *)
(***************************************************************************)
\* the documented hierarchy, outermost first
Rank(mu) ==
    CASE mu = "m.mu" -> 1
      [] mu = "db.mu" -> 2
      [] mu = "g.mu" -> 3
      [] mu = "p.mu" -> 4

\* C20: lock hierarchy: every goroutine acquires its locks in the order
\* Manager lock, Database lock, HNSWGraph lock, codec lock: of two locks it
\* holds, the one acquired later is strictly further in that order (so it
\* never acquires an earlier lock while holding a later one, nor a lock it
\* already holds).
C20_LockHierarchy ==
    \A t \in Threads :
        \A i, j \in 1..Len(threads[t].held) :
            i < j => Rank(threads[t].held[i].mu) < Rank(threads[t].held[j].mu)

\* the ids of a list are all different
NoRepeat(list) ==
    \A i, j \in 1..Len(list) : list[i] = list[j] => i = j

\* C26: after any sequence of successful inserts, no neighbour list
\* Layers[l][u] contains the same id twice.
C26_NoDuplicateNeighbors ==
    \A l \in LayerIds(g) : \A u \in LayerNodes(g, l) : NoRepeat(Neighbors(g, l, u))

\* C26 witness: a list that was full took one more id and was trimmed, and
\* some list holds two ids.
C26_Witness ==
    /\ last.op = "Insert" /\ last.err = NoErr
    /\ Count(g) >= 3
    /\ g.M = 2
    /\ \E u \in LayerNodes(g, 0) :
          /\ Len(Neighbors(g, 0, u)) = 2
          /\ last.vec.ID \in Range(Neighbors(g, 0, u))
    /\ \E u \in LayerNodes(g, 0) :
          /\ u # last.vec.ID
          /\ last.vec.ID \notin Range(Neighbors(g, 0, u))
          /\ u \in Range(Neighbors(g, 0, last.vec.ID))

\* the ids a walk along the lists of layer 0 reaches from the ids of `seen`
RECURSIVE ReachableFrom(_, _)
ReachableFrom(gr, seen) ==
    LET next == seen \cup UNION {Range(Neighbors(gr, 0, u)) : u \in seen}
    IN  IF next = seen THEN seen ELSE ReachableFrom(gr, next)

\* C28: the layer-0 search of Search is max(k, EfSearch) wide: when
\* k > EfSearch and at least k vectors are indexed and reachable in layer 0
\* (from whichever vector the descent ends at), Search(query, k) returns k
\* vectors.
C28_WidthCoversK ==
    (/\ last.op = "Search" /\ last.err = NoErr
     /\ last.k > g.EfSearch
     /\ Count(g) >= last.k
     /\ \A start \in DOMAIN g.Vectors :
            Cardinality(ReachableFrom(g, {start})) >= last.k) =>
        Len(last.ret) = last.k

\* searchLayer(query, entryPoint, k, layer 0) after its first pop: the entry
\* point is visited and in resultSet, candidateSet is empty (lines 444-475)
AfterFirstPop(gr, query, entryPoint) ==
    LET first == DistanceItem(entryPoint,
                              Distance(gr, query, VecData(gr, entryPoint)))
    IN  [visited |-> {entryPoint}, resultSet |-> <<first>>, candidateSet |-> <<>>,
         popped |-> <<entryPoint>>, peak |-> 1]

\* the ids in a heap
HeapIds(h) == {h[i].ID : i \in 1..Len(h)}

\* C30: in the layer search, a neighbour of the popped candidate that was
\* not yet visited is pushed to the frontier whether or not its distance
\* beats the worst result.  (Stated for the first neighbour of the entry
\* point in the layer-0 search a Search has just made on a one-layer index.)
C30_AlwaysPushed ==
    (/\ last.op = "Search" /\ last.err = NoErr
     /\ g.EntryPoint # "" /\ g.MaxLayer = 0
     /\ Len(Neighbors(g, 0, g.EntryPoint)) >= 1) =>
        LET neighborID == Neighbors(g, 0, g.EntryPoint)[1]
            st == VisitNeighbor(g, last.query,
                                EffectiveEf(g, g.EfSearch, 0), neighborID,
                                AfterFirstPop(g, last.query, g.EntryPoint))
        IN  neighborID \in HeapIds(st.candidateSet)

\* C29: a database created through CreateDatabase uses its config's
\* hyperparameters in its index: the index's M, EfConstruction, EfSearch and
\* DistanceType equal the config's (the configs given hold positive values).
C29_IndexUsesConfig ==
    \A name \in DOMAIN databases :
        LET hnsw == databases[name].Config.HNSW
            graph == databases[name].Graph
        IN  /\ graph.M = hnsw.M
            /\ graph.EfConstruction = hnsw.EfConstruction
            /\ graph.EfSearch = hnsw.EfSearch
            /\ graph.DistanceType = hnsw.DistanceType

(***************************************************************************)
(* Claims about the distance kernels (checked under SpecMetric).           *)
(***************************************************************************)
\* the distance d of metric dt is 0
IsZero(dt, d) ==
    IF dt = DistanceTypeCosine
    THEN d.dot > 0 /\ d.dot * d.dot = d.normA * d.normB
    ELSE d = 0

\* the distance d of metric dt is 0 or more
IsNonNegative(dt, d) ==
    IF dt = DistanceTypeCosine
    THEN ~(d.dot > 0 /\ d.dot * d.dot > d.normA * d.normB)
    ELSE d >= 0

\* the number of indices at which a and b differ
Differing(a, b) == Cardinality({i \in 1..Len(a) : a[i] # b[i]})

AllZero(a) == \A i \in 1..Len(a) : a[i] = 0

DistanceCalled == last.op = "Distance"

GuardOf(res) == IF res = "db.Vectors" THEN "db.mu" ELSE "g.mu"

\* the goroutines in the middle of a read or write of res, and of a write
Accessing(res) ==
    {t \in Threads : threads[t].acc # <<>> /\ threads[t].acc[1].mu = res}

WritingTo(res) ==
    {t \in Accessing(res) : threads[t].acc[1].call = "Write"}

\* C21: under any interleaving of the manager's calls and the save passes,
\* a database's identity map and its index are written only by a goroutine
\* that holds the corresponding writer lock, and no goroutine reads them
\* while another is in the middle of writing them.
C21_WritesUnderWriterLock ==
    \A res \in {"db.Vectors", "db.Graph"} :
        /\ \A t \in WritingTo(res) : t \in Writers(threads, GuardOf(res))
        /\ \A t \in WritingTo(res) : Accessing(res) = {t}

\* C21 witness: one goroutine is in the middle of AddVector's write of the
\* identity map while another, inside SaveDatabase, holds the codec lock and
\* has not been given the database lock it asks for.
C21_Witness ==
    \E t, u \in Threads :
        /\ threads[t].op = "AddVector" /\ t \in WritingTo("db.Vectors")
        /\ threads[u].op = "SaveDatabase"
        /\ threads[u].pc = 2 /\ Len(threads[u].held) = 1
        /\ ~CanAcquire(threads, LockPrograms["SaveDatabase"][2])

(***************************************************************************)
(* Claims about concurrent calls (checked under SpecCreates, SpecIndex).   *)
(***************************************************************************)
\* the calls of method op that returned, as pairs of goroutine and position
Returned(op) ==
    {<<t, i>> \in Threads \X (1..MaxCalls) :
        i <= Len(threads[t].done) /\ threads[t].done[i].op = op}

CallAt(p) == threads[p[1]].done[p[2]]

\* the goroutines inside a call of method op
Inside(op) == {t \in Threads : threads[t].op = op}

\* C22: concurrent CreateDatabase calls are serialized: every creation of a
\* name returns nil or ErrDatabaseExists; of the creations of one name at
\* most one returns nil, and exactly one once they have all returned; a
\* creation fails only when the name is in the map (so creations of
\* distinct names all succeed); every created name is listed.
C22_CreatesSerialized ==
    \A name \in DbNames :
        LET returned == {p \in Returned("CreateDatabase") : CallAt(p).db = name}
            succeeded == {p \in returned : CallAt(p).err = NoErr}
            underWay == {t \in Inside("CreateDatabase") : threads[t].call.db = name}
        IN  /\ \A p \in returned : CallAt(p).err \in {NoErr, ErrDatabaseExists}
            /\ Cardinality(succeeded) <= 1
            /\ (returned # {} /\ underWay = {}) => Cardinality(succeeded) = 1
            /\ returned # {} => name \in ListDatabases(databases)

\* C22 witness: the first calls of two goroutines created the same name and
\* both returned, one with nil and one with ErrDatabaseExists; a creation of
\* the other name succeeded as well, and both names are in the map.
C22_Witness ==
    /\ \E p, q \in Returned("CreateDatabase") :
          /\ p[1] # q[1] /\ p[2] = 1 /\ q[2] = 1
          /\ CallAt(p).db = "db1" /\ CallAt(q).db = "db1"
          /\ CallAt(p).err = NoErr /\ CallAt(q).err = ErrDatabaseExists
    /\ \E p \in Returned("CreateDatabase") :
          CallAt(p).db = "db2" /\ CallAt(p).err = NoErr
    /\ DOMAIN databases = {"db1", "db2"}

\* C23: concurrent Insert and Search calls on one index behave as if made
\* one at a time: every Insert that returned nil has its vector stored; of
\* the Inserts of one id at most one returns nil, and exactly one once they
\* have all returned; an Insert of a valid vector fails only with the
\* duplicate error, its id being stored; and whenever a Search is about to
\* read the index, no Insert has stored its vector without having linked it.
C23_IndexCallsSerialized ==
    /\ \A p \in Returned("Insert") :
          /\ CallAt(p).err = NoErr =>
                /\ CallAt(p).vec.ID \in DOMAIN g.Vectors
                /\ g.Vectors[CallAt(p).vec.ID] = CallAt(p).vec
          /\ Len(CallAt(p).vec.Data) > 0 =>
                /\ CallAt(p).err \in {NoErr, ErrDuplicate}
                /\ CallAt(p).vec.ID \in DOMAIN g.Vectors
    /\ \A id \in {"a", "b"} :
          LET returned == {p \in Returned("Insert") : CallAt(p).vec.ID = id}
              succeeded == {p \in returned : CallAt(p).err = NoErr}
              underWay == {t \in Inside("Insert") : threads[t].call.vec.ID = id}
          IN  /\ Cardinality(succeeded) <= 1
              /\ (returned # {} /\ underWay = {}) => Cardinality(succeeded) = 1
    /\ \A t \in Threads :
          AtStatement(threads[t], "Search.read") =>
              \A u \in Threads : ~AtStatement(threads[u], "Insert.link")

\* C23 witness: two goroutines inserted the same id a and both returned, one
\* with nil and one with the duplicate error; b was inserted too; and a
\* Search returned both vectors.
C23_Witness ==
    /\ \E p, q \in Returned("Insert") :
          /\ p[1] # q[1]
          /\ CallAt(p).vec.ID = "a" /\ CallAt(q).vec.ID = "a"
          /\ CallAt(p).err = NoErr /\ CallAt(q).err = ErrDuplicate
    /\ \E p \in Returned("Insert") :
          CallAt(p).vec.ID = "b" /\ CallAt(p).err = NoErr
    /\ \E p \in Returned("Search") :
          CallAt(p).err = NoErr /\ Len(CallAt(p).ret) = 2

\* C24: in a save pass, a failure to fetch or to save one database does not
\* end the pass: every name of the slice listed at the start of the pass
\* that the loop has gone past either had SaveDatabase called on its
\* database or failed itself (GetDatabase did not find it), and a finished
\* pass has gone past every name.
C24_PassGoesOn ==
    \A r \in Goroutines :
        LET pass == threads[r].pass
        IN  /\ \A j \in 1..Len(pass.names) :
                  j < pass.i => pass.names[j] \in pass.attempted \cup pass.failed
            /\ pass.step = "done" => pass.i = Len(pass.names) + 1

\* C24 witness: the worker's pass over two databases is finished; saving
\* the first one failed with an I/O error and SaveDatabase was still called
\* for the second; and in main's finished pass the first name was not found
\* by GetDatabase and SaveDatabase was still called for the second.
C24_Witness ==
    /\ LET pass == threads.worker.pass
       IN  /\ pass.step = "done" /\ Len(pass.names) = 2
           /\ pass.names[1] \in pass.failed \cap pass.attempted
           /\ pass.names[2] \in pass.attempted \ pass.failed
    /\ LET pass == threads.main.pass
       IN  /\ pass.step = "done" /\ Len(pass.names) = 2
           /\ pass.names[1] \in pass.failed \ pass.attempted
           /\ pass.names[2] \in pass.attempted \ pass.failed

\* the snapshot of the database on disk is the one SaveDatabase writes
Saved(dsk, db) ==
    /\ db.Name \in DOMAIN dsk
    /\ dsk[db.Name] = [config |-> EncodeConfig(db.Config),
                       vectors |-> EncodeVectors(db.Vectors)]

\* C25: when the process has ended after the shutdown signal, no handler
\* having changed the manager since the signal and no I/O call having
\* failed, every database of the manager is saved on disk with the state it
\* has.
C25_SavedAtShutdown ==
    (/\ threads.main.pc = "exited"
     /\ ~threads.server.afterSignal
     /\ threads.main.pass.failed = {}
     /\ threads.worker.pass.failed = {})
    => \A name \in DOMAIN databases : Saved(disk, databases[name])

\* the smallest distance from the vector id to a vector of the set selected
MinDistance(gr, id, selected) ==
    CHOOSE d \in {Distance(gr, VecData(gr, id), VecData(gr, s)) : s \in selected} :
        \A s \in selected : d <= Distance(gr, VecData(gr, id), VecData(gr, s))

\* selectNeighbors was called with more candidates than m
SelectedSome == last.op = "selectNeighbors" /\ Len(last.names) > last.k

\* C31: selectNeighbors(query, candidates, M) returns all the candidates
\* when there are at most M; otherwise it returns exactly M ids, no id
\* twice, all of them candidates, the first one a candidate nearest to the
\* query, and each following one a candidate, among those not yet selected,
\* whose minimum distance to the ids selected before it is largest.
C31_NeighborSelection ==
    last.op = "selectNeighbors" =>
        IF Len(last.names) <= last.k THEN last.ret = last.names
        ELSE /\ Len(last.ret) = last.k
             /\ NoRepeat(last.ret)
             /\ Range(last.ret) \subseteq Range(last.names)
             /\ \A c \in Range(last.names) :
                    Distance(g, last.query, VecData(g, last.ret[1]))
                        <= Distance(g, last.query, VecData(g, c))
             /\ \A i \in 2..Len(last.ret) :
                    LET selected == {last.ret[j] : j \in 1..(i - 1)}
                    IN  \A c \in Range(last.names) \ selected :
                            MinDistance(g, c, selected)
                                <= MinDistance(g, last.ret[i], selected)

\* C31 witness: three ids were selected out of four candidates, and they
\* are not the three candidates nearest to the query: the candidate left
\* out is nearer to the query than the one selected second.
C31_Witness ==
    /\ SelectedSome
    /\ Len(last.names) = 4 /\ last.k = 3
    /\ \E c \in Range(last.names) \ Range(last.ret) :
           Distance(g, last.query, VecData(g, c))
               < Distance(g, last.query, VecData(g, last.ret[2]))

\* the keys of the map g.Layers[l]
LayerKeys(gr, l) == DOMAIN gr.Layers[l + 1]

\* Insert returned nil
Inserted == last.op = "Insert" /\ last.err = NoErr

\* C32: after a successful Insert of a vector assigned level L, the
\* vector's id is a key of every layer from 0 through min(L, MaxLayer); and
\* a node that is a key of a layer l > 0 is a key of layer 0.
C32_KeyOfItsLayers ==
    /\ Inserted =>
          \A l \in 0..Min(last.layer, g.MaxLayer) : last.id \in LayerKeys(g, l)
    /\ \A l \in LayerIds(g) :
          l > 0 => LayerKeys(g, l) \subseteq LayerKeys(g, 0)

\* C33: after an Insert that returned nil with assigned level L, the number
\* of layers is at least L + 1 and MaxLayer is the larger of the previous
\* MaxLayer and L; in every reachable state the number of layers is
\* MaxLayer + 1, and no step makes MaxLayer smaller.
C33_LevelBookkeeping ==
    /\ Len(g.Layers) = g.MaxLayer + 1
    /\ [][/\ (last'.op = "Insert" /\ last'.err = NoErr) =>
                /\ Len(g'.Layers) >= last'.layer + 1
                /\ g'.MaxLayer = Max(g.MaxLayer, last'.layer)
          /\ Len(g'.Layers) = g'.MaxLayer + 1
          /\ g'.MaxLayer >= g.MaxLayer]_vars

\* C33 witness: an Insert with the highest level returned nil on an index
\* that held a vector already; the index has that many layers above layer 0.
C33_Witness ==
    /\ Inserted /\ last.layer = MaxLevel /\ MaxLevel > 0
    /\ Count(g) >= 2
    /\ g.MaxLayer = MaxLevel /\ Len(g.Layers) = MaxLevel + 1

\* C34: when the index rejects the vector given to Manager.AddVector (empty
\* id, empty data, or an id the index holds), AddVector returns the index's
\* error and leaves the identity map as it was before the call.
C34_IndexErrorsReturned ==
    [][(/\ last'.op = "AddVector" /\ last'.db \in DOMAIN databases
        /\ Len(last'.vec.Data) = Dimensions(databases, last'.db)
        /\ InsertErr(databases[last'.db].Graph, last'.vec) # NoErr)
       => /\ last'.err = InsertErr(databases[last'.db].Graph, last'.vec)
          /\ databases'[last'.db].Vectors = databases[last'.db].Vectors
    ]_vars

\* the goroutine is inside SaveDatabase and holds p.mu
WritingFiles(th) ==
    th.op = "SaveDatabase" /\ \E i \in 1..Len(th.held) : th.held[i].mu = "p.mu"

\* C35: the content one SaveDatabase call writes to vectors.json is the
\* encoding of the identity map as it was at one instant during that call,
\* whatever AddVector and DeleteVector calls on the database run at the same
\* time; and no two SaveDatabase calls are writing files at the same time.
C35_ConsistentSnapshot ==
    /\ \A t \in Threads :
          threads[t].written # <<>> =>
              threads[t].written[1] \in {EncodeVectors(m) : m \in threads[t].seen}
    /\ Cardinality({t \in Threads : WritingFiles(threads[t])}) <= 1

\* C35 witness: a SaveDatabase call has written vectors.json with a vector
\* in it, and the identity map had three values or more during the call.
C35_Witness ==
    \E t \in Threads :
        /\ threads[t].written # <<>> /\ threads[t].written[1] # EncodeVectors(<<>>)
        /\ Cardinality(threads[t].seen) >= 3
        /\ WritingFiles(threads[t])

\* the ids a walk along the lists of layer l reaches from the ids of `seen`
RECURSIVE ReachableInLayer(_, _, _)
ReachableInLayer(gr, l, seen) ==
    LET next == seen \cup UNION {Range(Neighbors(gr, l, u)) : u \in seen}
    IN  IF next = seen THEN seen ELSE ReachableInLayer(gr, l, next)

\* the layer searches looked at after a Search: the query and k of the
\* call, from every stored vector as entry point, in every layer
LayerSearches ==
    IF last.op = "Search" /\ last.err = NoErr
    THEN {<<entryPoint, l>> : entryPoint \in DOMAIN g.Vectors, l \in LayerIds(g)}
    ELSE {}

\* C36: in searchLayer, resultSet holds at most ef items once a neighbour
\* has been dealt with; and when at most ef nodes can be reached from the
\* entry point in the layer, all of them (the entry point too) are visited
\* and searchLayer returns the min(k, size) nearest of them, in ascending
\* distance.
C36_LayerSearchWidth ==
    \A s \in LayerSearches :
        LET ef == EffectiveEf(g, last.k, s[2])
            st == SearchLayerRun(g, last.query, s[1], last.k, s[2])
            out == searchLayer(g, last.query, s[1], last.k, s[2])
            reach == ReachableInLayer(g, s[2], {s[1]})
        IN  /\ st.peak <= ef
            /\ Cardinality(reach) <= ef =>
                  /\ st.visited = reach
                  /\ Len(out) = Min(last.k, Cardinality(reach))
                  /\ NoRepeat(out)
                  /\ Range(out) \subseteq reach
                  /\ \A i \in 1..(Len(out) - 1) :
                        Distance(g, last.query, VecData(g, out[i]))
                            <= Distance(g, last.query, VecData(g, out[i + 1]))
                  /\ \A id \in reach \ Range(out) :
                        \A i \in 1..Len(out) :
                            Distance(g, last.query, VecData(g, out[i]))
                                <= Distance(g, last.query, VecData(g, id))

\* C36 witness: a layer above layer 0 in which three nodes are reached from
\* an entry point, with a width of three, while the index holds a vector
\* that cannot be reached there; k is smaller than the number reached.
C36_Witness ==
    \E s \in LayerSearches :
        /\ s[2] > 0
        /\ Cardinality(ReachableInLayer(g, s[2], {s[1]})) = 3
        /\ EffectiveEf(g, last.k, s[2]) = 3
        /\ Count(g) > 3
        /\ last.k = 2

\* C37: on an index built by inserts, every layer that has a key has the
\* entry point as a key, and the entry point, once set, stays the vector it
\* was set to, whatever the levels of the vectors inserted later.
C37_EntryInEveryLayer ==
    /\ \A l \in LayerIds(g) : LayerKeys(g, l) # {} => g.EntryPoint \in LayerKeys(g, l)
    /\ [][/\ g.EntryPoint # "" => g'.EntryPoint = g.EntryPoint
          /\ \A l \in LayerIds(g') :
                LayerKeys(g', l) # {} => g'.EntryPoint \in LayerKeys(g', l)]_vars

\* C37 witness: the second vector of an index was inserted with the highest
\* level; the top layer has keys, the entry point and the new vector.
C37_Witness ==
    /\ Inserted /\ last.layer = MaxLevel /\ MaxLevel > 0
    /\ Count(g) = 2
    /\ last.id # g.EntryPoint
    /\ LayerKeys(g, MaxLevel) = DOMAIN g.Vectors

\* u lists v in layer l
Edge(gr, l, u, v) == v \in Range(Neighbors(gr, l, u))

\* C38: on every index built by inserts, whatever its lists (edges in one
\* direction only, cycles), searchLayer ends its loop having popped each id
\* from candidateSet at most once: the ids popped are distinct visited ids,
\* so there are at most as many pops as stored vectors.
C38_EachNodePoppedOnce ==
    \A s \in LayerSearches :
        LET st == SearchLayerRun(g, last.query, s[1], last.k, s[2])
        IN  /\ NoRepeat(st.popped)
            /\ Range(st.popped) \subseteq st.visited
            /\ st.visited \subseteq DOMAIN g.Vectors
            /\ Len(st.popped) <= Count(g)

\* C38 witness: a search of a layer that has two ids listing each other and
\* an id listing another that does not list it back; three ids were popped.
C38_Witness ==
    \E s \in LayerSearches :
        /\ \E u, v \in DOMAIN g.Vectors :
              u # v /\ Edge(g, s[2], u, v) /\ Edge(g, s[2], v, u)
        /\ \E u, v \in DOMAIN g.Vectors :
              u # v /\ Edge(g, s[2], u, v) /\ ~Edge(g, s[2], v, u)
        /\ Len(SearchLayerRun(g, last.query, s[1], last.k, s[2]).popped) >= 3

\* C39: with every goroutine that can run being run, every call of
\* CreateDatabase, DeleteDatabase, AddVector, GetVector, DeleteVector,
\* Search and of a snapshot pass that a goroutine has entered returns,
\* whatever the other goroutines call meanwhile: no goroutines wait for
\* each other's locks for ever.
C39_EveryCallReturns ==
    \A t \in Callers : (threads[t].op # "idle") ~> (threads[t].op = "idle")

\* C39 witness: a snapshot pass holds p.mu and is blocked in db.mu.RLock
\* behind an AddVector or DeleteVector that announced itself on db.mu, which
\* waits for a Search or GetVector that holds db.mu for reading.
C39_Witness ==
    \E r, w, s \in Callers :
        /\ threads[s].op = "saveAllDatabases" /\ threads[s].wait = "blocked"
        /\ s \in Holders(threads, "p.mu")
        /\ threads[w].wait = "announced" /\ w \in Announced(threads, "db.mu")
        /\ threads[r].op \in {"Search", "GetVector"}
        /\ r \in Holders(threads, "db.mu")

\* C40: after a save pass the directories of the data root are the
\* manager's databases, so that a database saved and then removed with
\* Manager.DeleteDatabase is gone from the data root after the next pass;
\* and a restart that follows a save pass restores the names the manager
\* held, no others.
C40_DeletedStaysDeleted ==
    [][/\ last'.op = "saveAllDatabases" =>
              PersistenceListDatabases(disk') = ListDatabases(databases')
       /\ (last.op = "saveAllDatabases" /\ last'.op = "loadDatabases") =>
              ListDatabases(databases') = ListDatabases(databases)]_vars

====
